---- MODULE Spec2Model ----
(***************************************************************************)
(* Model of the Ohio crash-report parser (src/utils/pdf_parser.py):       *)
(* OhioPdfParser.parse() and convert_pdf_to_json().                        *)
(*                                                                         *)
(* A document is a sequence of pages, a page a sequence of text lines.     *)
(* Lines are drawn from a finite universe of concrete line texts; Python's *)
(* substring, prefix, split and regular-expression operations are given as *)
(* tables over that universe (each entry is the value Python computes for  *)
(* that text).  Python lists are 0-based, the sequences here 1-based: the  *)
(* loop index l of the source is l+1 here.                                 *)
(*                                                                         *)
(* pdf_parser.py as committed is rejected by the Python compiler at line   *)
(* 629: lines 579-1017 stand one indentation level (4 columns) left of the *)
(* lines around them.  Lines 587-1017 can only be read one level deeper    *)
(* (the elif chain of _extract_persons has to pair with the if of line     *)
(* 573, and _map_persons_to_vehicles / _build_final_json are called as     *)
(* methods).  Lines 579-585 compile at either depth:                       *)
(*   - as written, outside "if current_person is not None" (line 575);     *)
(*   - one level deeper with the rest of the block, inside it.             *)
(* The variable saveGuarded carries that choice; it is fixed by Init and   *)
(* never changes.                                                          *)
(*                                                                         *)
(* strftime's %Y is the C library's: glibc gives a year below 1000 without *)
(* leading zeros, other libraries give four digits.  The variable padsYear *)
(* carries the library; it is fixed by Init as well.                       *)
(*                                                                         *)
(* Spec and its siblings follow one parser through parse() and the write   *)
(* of convert_pdf_to_json(), step by step; SpecBatch follows one call of   *)
(* convert_pdf_to_json() per document of a batch, the calls interleaved.   *)
(*                                                                         *)
(* The scraper around the parser has three machines of its own:            *)
(* SpecSolver follows CaptchaSolver._solve_sync (src/utils/                *)
(* captcha_solver.py) through the upload and the polls, the answers of the *)
(* service drawn from the shapes JSON allows; SpecLogin follows the        *)
(* captcha retry loop of main() and SpecDownload the rows of               *)
(* download_all_reports() (src/main.py).                                   *)
(***************************************************************************)
EXTENDS Integers, Sequences, FiniteSets, TLC

(***************************************************************************)
(* Bounds                                                                  *)
(***************************************************************************)
MaxLines == 3
MaxVehicleLines == 4
MaxPages == 2
MaxBatchLines == 2
MaxPrefixLines == 2
MaxCalls == 2
MaxCaptchas == 2
MaxRows == 2
MaxDocs == 2

(***************************************************************************)
(* The universe of line texts                                              *)
(***************************************************************************)
BlankLine == "   "
VehicleStartLine == "UNIT # OWNER NAME: LAST, FIRST, MIDDLE ( SAME AS DRIVER ) OWNER PHONE"
Header1Line == "1  DOE, JOHN  330-555-0101"
Header2Line == "2  ROE, JANE  330-555-0102"
PersonStartLine == "INJURIES INJURED"
NcicLine == "NCIC *"
NcicDataLine == "OHP0250 2"
HarmfulLine == "12 FIRST HARMFUL EVENT 12 MOST HARMFUL EVENT"
DobLine == "DATE OF BIRTH"
LocalInfoLine == "LOCAL INFORMATION P25102200000570"
ReportNumberLine == "LOCAL REPORT NUMBER *"
ReportDataLine == "20235016815 X PHOTOS TAKEN"
CrashDateLine == "CRASH DATE / TIME*"
DateLine == "02/29/2024 14:30"
BadDateLine == "02/29/2023 09:15"
OldDateLine == "01/01/0999 10:00"
ShortDateLine == "1/2/2025 08:00"
LpStateLine == "LP STATE LICENSE PLATE # VEHICLE IDENTIFICATION #"
LpDataLine == "KY 2802GB 3C6UR5FL6MG630586 2021 RAM"
LpWideLine == "KY  2802GB  3C6UR5FL6MG630586  2021  RAM"
LocalInfo2Line == "LOCAL INFORMATION P25102200000999"
LpLongLine == "KY 2802GB 3C6UR5FL6MG6305861 2021 RAM"
UnitLine == "UNIT  #"
UnitNumberLine == "1"
NameAnchorLine == "NAME: LAST, FIRST, MIDDLE"
NameLine == "DOE, JOHN, QUINCY"
AgencyLine == "REPORTING AGENCY NAME *"
AgencyNameLine == "AKRON POLICE DEPARTMENT"

Universe ==
  {BlankLine, VehicleStartLine, Header1Line, Header2Line, PersonStartLine,
   NcicLine, NcicDataLine, HarmfulLine, DobLine, LocalInfoLine,
   ReportNumberLine, ReportDataLine, CrashDateLine, DateLine, BadDateLine,
   OldDateLine, ShortDateLine, LpStateLine, LpDataLine, LpWideLine,
   LocalInfo2Line, LpLongLine, UnitLine, UnitNumberLine, NameAnchorLine,
   NameLine, AgencyLine, AgencyNameLine}

(***************************************************************************)
(* Python string operations on the universe                                *)
(***************************************************************************)
\* the anchor literals of pdf_parser.py that occur in the line (sub in line)
AnchorsIn(line) ==
  CASE line = VehicleStartLine ->
         {"UNIT #", "OWNER NAME: LAST, FIRST, MIDDLE", "NAME: LAST, FIRST, MIDDLE",
          "SAME AS DRIVER", "OWNER PHONE", "DRIVER"}
    [] line = PersonStartLine -> {"INJURIES", "INJURED"}
    [] line = NcicLine -> {"NCIC *"}
    [] line = HarmfulLine -> {"FIRST HARMFUL EVENT", "MOST HARMFUL EVENT"}
    [] line = DobLine -> {"DATE OF BIRTH"}
    [] line = LocalInfoLine -> {"LOCAL INFORMATION", "LOCAL"}
    [] line = LocalInfo2Line -> {"LOCAL INFORMATION", "LOCAL"}
    [] line = ReportNumberLine -> {"REPORT NUMBER *", "LOCAL REPORT NUMBER *", "LOCAL"}
    [] line = ReportDataLine -> {"PHOTOS", "X"}
    [] line = CrashDateLine -> {"CRASH DATE", "CRASH DATE / TIME*"}
    [] line = LpStateLine ->
         {"LP STATE", "LICENSE PLATE", "VEHICLE IDENTIFICATION", "VEHICLE"}
    [] line = UnitLine -> {"UNIT  #"}
    [] line = NameAnchorLine -> {"NAME: LAST, FIRST, MIDDLE"}
    [] line = AgencyLine -> {"REPORTING AGENCY NAME *", "AGE"}
    [] OTHER -> {}

Contains(sub, line) == sub \in AnchorsIn(line)

\* line.startswith(p), for the prefixes pdf_parser.py tests
PrefixesOf(line) ==
  CASE line = NcicLine -> {"NCIC *"}
    [] line = CrashDateLine -> {"CRASH DATE / TIME*"}
    [] line = AgencyLine -> {"REPORTING AGENCY NAME *"}
    [] OTHER -> {}

StartsWith(line, p) == p \in PrefixesOf(line)

\* line.endswith(s), for the suffixes pdf_parser.py tests ("TOWNSHIP", "FATAL"):
\* no line of the universe ends with either
SuffixesOf(line) == {}

EndsWith(line, s) == s \in SuffixesOf(line)

\* s.strip(), for the lines of the universe and the parts SplitComma yields
Strip(s) ==
  CASE s = BlankLine -> ""
    [] s = " FIRST" -> "FIRST"
    [] s = " MIDDLE ( SAME AS DRIVER ) OWNER PHONE" -> "MIDDLE ( SAME AS DRIVER ) OWNER PHONE"
    [] s = " JOHN  330-555-0101" -> "JOHN  330-555-0101"
    [] s = " JANE  330-555-0102" -> "JANE  330-555-0102"
    [] s = " MIDDLE" -> "MIDDLE"
    [] s = " JOHN" -> "JOHN"
    [] s = " QUINCY" -> "QUINCY"
    [] s = " " -> ""
    [] OTHER -> s

\* int(s) succeeds
IsInt(s) == s \in {"1", "2", "12", "2021"}

\* int(s)
IntOf(s) == CASE s = "1" -> 1 [] s = "2" -> 2 [] s = "12" -> 12 [] s = "2021" -> 2021

\* float(s) succeeds
IsFloat(s) == IsInt(s)

\* line.strip().split(' ')
SplitSpace(line) ==
  CASE line = BlankLine -> <<"">>
    [] line = VehicleStartLine ->
         <<"UNIT", "#", "OWNER", "NAME:", "LAST,", "FIRST,", "MIDDLE", "(", "SAME",
           "AS", "DRIVER", ")", "OWNER", "PHONE">>
    [] line = Header1Line -> <<"1", "", "DOE,", "JOHN", "", "330-555-0101">>
    [] line = Header2Line -> <<"2", "", "ROE,", "JANE", "", "330-555-0102">>
    [] line = PersonStartLine -> <<"INJURIES", "INJURED">>
    [] line = NcicLine -> <<"NCIC", "*">>
    [] line = NcicDataLine -> <<"OHP0250", "2">>
    [] line = HarmfulLine ->
         <<"12", "FIRST", "HARMFUL", "EVENT", "12", "MOST", "HARMFUL", "EVENT">>
    [] line = DobLine -> <<"DATE", "OF", "BIRTH">>
    [] line = LocalInfoLine -> <<"LOCAL", "INFORMATION", "P25102200000570">>
    [] line = LocalInfo2Line -> <<"LOCAL", "INFORMATION", "P25102200000999">>
    [] line = ReportNumberLine -> <<"LOCAL", "REPORT", "NUMBER", "*">>
    [] line = ReportDataLine -> <<"20235016815", "X", "PHOTOS", "TAKEN">>
    [] line = CrashDateLine -> <<"CRASH", "DATE", "/", "TIME*">>
    [] line = DateLine -> <<"02/29/2024", "14:30">>
    [] line = BadDateLine -> <<"02/29/2023", "09:15">>
    [] line = OldDateLine -> <<"01/01/0999", "10:00">>
    [] line = ShortDateLine -> <<"1/2/2025", "08:00">>
    [] line = LpStateLine ->
         <<"LP", "STATE", "LICENSE", "PLATE", "#", "VEHICLE", "IDENTIFICATION", "#">>
    [] line = LpDataLine -> <<"KY", "2802GB", "3C6UR5FL6MG630586", "2021", "RAM">>
    [] line = LpWideLine ->
         <<"KY", "", "2802GB", "", "3C6UR5FL6MG630586", "", "2021", "", "RAM">>
    [] line = LpLongLine -> <<"KY", "2802GB", "3C6UR5FL6MG6305861", "2021", "RAM">>
    [] line = UnitLine -> <<"UNIT", "", "#">>
    [] line = UnitNumberLine -> <<"1">>
    [] line = NameAnchorLine -> <<"NAME:", "LAST,", "FIRST,", "MIDDLE">>
    [] line = NameLine -> <<"DOE,", "JOHN,", "QUINCY">>
    [] line = AgencyLine -> <<"REPORTING", "AGENCY", "NAME", "*">>
    [] line = AgencyNameLine -> <<"AKRON", "POLICE", "DEPARTMENT">>

\* re.split(r'\s{2,}|DAMAGE SCALE', line), stripped, empty parts removed
HeaderParts(line) ==
  CASE line = BlankLine -> <<>>
    [] line = Header1Line -> <<"1", "DOE, JOHN", "330-555-0101">>
    [] line = Header2Line -> <<"2", "ROE, JANE", "330-555-0102">>
    [] line = LpWideLine -> <<"KY", "2802GB", "3C6UR5FL6MG630586", "2021", "RAM">>
    [] line = UnitLine -> <<"UNIT", "#">>
    [] OTHER -> <<line>>

\* re.split(r'\s{2,}', line), stripped, empty parts removed
WideParts(line) ==
  CASE line = BlankLine -> <<>>
    [] line = Header1Line -> <<"1", "DOE, JOHN", "330-555-0101">>
    [] line = Header2Line -> <<"2", "ROE, JANE", "330-555-0102">>
    [] line = LpWideLine -> <<"KY", "2802GB", "3C6UR5FL6MG630586", "2021", "RAM">>
    [] line = UnitLine -> <<"UNIT", "#">>
    [] OTHER -> <<line>>

\* re.search(r'\w{17}', line) finds a match
HasVin(line) == line \in {LpDataLine, LpWideLine, LpLongLine}

\* match.group(0) of that match
VinOf(line) ==
  CASE line = LpDataLine -> "3C6UR5FL6MG630586"
    [] line = LpWideLine -> "3C6UR5FL6MG630586"
    [] line = LpLongLine -> "3C6UR5FL6MG630586"

\* re.search(r'(?<=LOCAL INFORMATION).*', line).group(0).strip()
AfterLocalInformation(line) ==
  CASE line = LocalInfoLine -> "P25102200000570"
    [] line = LocalInfo2Line -> "P25102200000999"
    [] OTHER -> ""

\* re.search(r'([0-9\-A-Za-z ]*(?=X(\s|P)))|([0-9A-Za-z\- ]*(?=PHOTOS))', line)
\* finds a match
HasReportNumber(line) == line = ReportDataLine

\* the matched text, stripped
ReportNumberOf(line) == IF line = ReportDataLine THEN "20235016815" ELSE ""

\* re.search(r'\s*\d{1,2}\s*(?=FIRST HARMFUL EVENT)', line) finds a match
HasFirstHarmful(line) == line = HarmfulLine

\* int(match.group(0).strip()) of that match
FirstHarmfulOf(line) == IntOf("12")

\* re.search(r'(?<=FIRST HARMFUL EVENT)\s*\d{1,2}\s*(?=MOST HARMFUL EVENT)', line)
\* finds a match
HasMostHarmful(line) == line = HarmfulLine

\* int(match.group(0).strip()) of that match
MostHarmfulOf(line) == IntOf("12")

\* re.search(r'\d{1,2}', line) finds a match
HasDigits(line) ==
  line \in {Header1Line, Header2Line, NcicDataLine, HarmfulLine, LocalInfoLine,
            ReportDataLine, DateLine, BadDateLine, OldDateLine, ShortDateLine,
            LpDataLine, LpWideLine, LocalInfo2Line, LpLongLine, UnitNumberLine}

\* match.group(0).strip() of that match
DigitsOf(line) ==
  CASE line = Header1Line -> "1"
    [] line = Header2Line -> "2"
    [] line = NcicDataLine -> "02"
    [] line = HarmfulLine -> "12"
    [] line = LocalInfoLine -> "25"
    [] line = ReportDataLine -> "20"
    [] line = DateLine -> "02"
    [] line = BadDateLine -> "02"
    [] line = OldDateLine -> "01"
    [] line = ShortDateLine -> "1"
    [] line = LpDataLine -> "28"
    [] line = LpWideLine -> "28"
    [] line = LocalInfo2Line -> "25"
    [] line = LpLongLine -> "28"
    [] line = UnitNumberLine -> "1"

\* line.split(',')
SplitComma(line) ==
  CASE line = VehicleStartLine ->
         <<"UNIT # OWNER NAME: LAST", " FIRST", " MIDDLE ( SAME AS DRIVER ) OWNER PHONE">>
    [] line = Header1Line -> <<"1  DOE", " JOHN  330-555-0101">>
    [] line = Header2Line -> <<"2  ROE", " JANE  330-555-0102">>
    [] line = NameAnchorLine -> <<"NAME: LAST", " FIRST", " MIDDLE">>
    [] line = NameLine -> <<"DOE", " JOHN", " QUINCY">>
    [] OTHER -> <<line>>

\* re.search(r'\d{2}/\d{2}/\d{4}', line) finds a match
HasDate(line) == line \in {DateLine, BadDateLine, OldDateLine}

(***************************************************************************)
(* datetime.strptime(token, "%m/%d/%Y") and strftime("%Y-%m-%d")           *)
(* (lines 967-968).  A token is taken apart into its characters; the       *)
(* directives are matched as CPython's _strptime matches them.             *)
(***************************************************************************)
\* the characters of a token; a token that holds no date is one symbol no
\* directive matches
Chars(token) ==
  CASE token = "02/29/2024" -> <<"0", "2", "/", "2", "9", "/", "2", "0", "2", "4">>
    [] token = "02/29/2023" -> <<"0", "2", "/", "2", "9", "/", "2", "0", "2", "3">>
    [] token = "01/01/0999" -> <<"0", "1", "/", "0", "1", "/", "0", "9", "9", "9">>
    [] token = "1/2/2025" -> <<"1", "/", "2", "/", "2", "0", "2", "5">>
    [] token = "1" -> <<"1">>
    [] token = "2" -> <<"2">>
    [] token = "12" -> <<"1", "2">>
    [] OTHER -> <<token>>

DigitChars == <<"0", "1", "2", "3", "4", "5", "6", "7", "8", "9">>

IsDigit(c) == \E v \in 1 .. 10 : DigitChars[v] = c

DigitVal(c) == (CHOOSE v \in 1 .. 10 : DigitChars[v] = c) - 1

\* the decimal value of a sequence of digit characters
RECURSIVE NumberOf(_)
NumberOf(cs) ==
  IF cs = <<>> THEN 0
  ELSE 10 * NumberOf(SubSeq(cs, 1, Len(cs) - 1)) + DigitVal(cs[Len(cs)])

\* the number of characters %m takes at the head of cs: 1[0-2]|0[1-9]|[1-9]
MonthLen(cs) ==
  IF Len(cs) >= 2 /\ cs[1] = "1" /\ cs[2] \in {"0", "1", "2"} THEN 2
  ELSE IF Len(cs) >= 2 /\ cs[1] = "0" /\ IsDigit(cs[2]) /\ cs[2] # "0" THEN 2
  ELSE IF Len(cs) >= 1 /\ IsDigit(cs[1]) /\ cs[1] # "0" THEN 1
  ELSE 0

\* the number of characters %d takes: 3[0-1]|[1-2]\d|0[1-9]|[1-9]
DayLen(cs) ==
  IF Len(cs) >= 2 /\ cs[1] = "3" /\ cs[2] \in {"0", "1"} THEN 2
  ELSE IF Len(cs) >= 2 /\ cs[1] \in {"1", "2"} /\ IsDigit(cs[2]) THEN 2
  ELSE IF Len(cs) >= 2 /\ cs[1] = "0" /\ IsDigit(cs[2]) /\ cs[2] # "0" THEN 2
  ELSE IF Len(cs) >= 1 /\ IsDigit(cs[1]) /\ cs[1] # "0" THEN 1
  ELSE 0

IsLeap(year) == year % 4 = 0 /\ (year % 100 # 0 \/ year % 400 = 0)

DaysInMonth(year, month) ==
  IF month = 2 THEN (IF IsLeap(year) THEN 29 ELSE 28)
  ELSE IF month \in {4, 6, 9, 11} THEN 30
  ELSE 31

NoDate == [ok |-> FALSE, year |-> 0, month |-> 0, day |-> 0]

\* datetime.strptime(token, "%m/%d/%Y"): ok is FALSE where it raises ValueError
\* (no match, unconverted data, year 0, day out of range for the month)
Strptime(cs) ==
  LET ml == MonthLen(cs)
      afterMonth == SubSeq(cs, ml + 1, Len(cs))
      rest1 == SubSeq(afterMonth, 2, Len(afterMonth))
      dl == DayLen(rest1)
      afterDay == SubSeq(rest1, dl + 1, Len(rest1))
      yearChars == SubSeq(afterDay, 2, Len(afterDay))
  IN IF /\ ml > 0
        /\ afterMonth # <<>> /\ afterMonth[1] = "/"
        /\ dl > 0
        /\ afterDay # <<>> /\ afterDay[1] = "/"
        /\ Len(yearChars) = 4
        /\ \A k \in 1 .. 4 : IsDigit(yearChars[k])
       THEN LET year == NumberOf(yearChars)
                month == NumberOf(SubSeq(cs, 1, ml))
                day == NumberOf(SubSeq(rest1, 1, dl))
            IN IF year >= 1 /\ day <= DaysInMonth(year, month)
                 THEN [ok |-> TRUE, year |-> year, month |-> month, day |-> day]
                 ELSE NoDate
       ELSE NoDate

\* a number in at least two digits (%m, %d of strftime)
Pad2(n) == IF n < 10 THEN "0" \o ToString(n) ELSE ToString(n)

\* %Y of strftime: the C library's; glibc gives a year below 1000 without
\* leading zeros, other libraries give four digits
YearText(year, pads) ==
  IF pads /\ year < 10 THEN "000" \o ToString(year)
  ELSE IF pads /\ year < 100 THEN "00" \o ToString(year)
  ELSE IF pads /\ year < 1000 THEN "0" \o ToString(year)
  ELSE ToString(year)

\* dt.strftime("%Y-%m-%d")
Strftime(dt, pads) ==
  YearText(dt.year, pads) \o "-" \o Pad2(dt.month) \o "-" \o Pad2(dt.day)

\* s.split()[0] of a non-blank s
FirstToken(s) == SplitSpace(s)[1]

\* lines 966-970: the date of s.split()[0] in the form %Y-%m-%d, "" when
\* strptime raises
NormalizedDate(s, pads) ==
  LET dt == Strptime(Chars(FirstToken(s)))
  IN IF dt.ok THEN Strftime(dt, pads) ELSE ""

\* re.split(r'1\s*-|1-', line): no line of the universe holds "1-" or "1 -"
SeverityParts(line) == <<line>>

(***************************************************************************)
(* Python dicts: functions from keys to values                             *)
(***************************************************************************)
EmptyDict == [k \in {} |-> ""]

Get(d, k, default) == IF k \in DOMAIN d THEN d[k] ELSE default

Put(d, k, v) == [x \in (DOMAIN d) \cup {k} |-> IF x = k THEN v ELSE d[x]]

\* truth value of a dict that is not None
Truthy(d) == DOMAIN d # {}

\* the value None as a return value of parse()
NoneValue == [none |-> TRUE]

IsNone(r) == "none" \in DOMAIN r

(***************************************************************************)
(* _extract_crash_basic_info (raw_lines)                                   *)
(***************************************************************************)
CrashInfoDefault ==
  [report_number |-> "", case_number |-> "", department |-> "",
   municipality |-> "", municipality_code |-> "", no_of_vehicles |-> 0,
   county |-> "", locality_code |-> "", location |-> "", date_of_crash |-> "",
   reference_road_name |-> "", local_road_name |-> ""]

\* the body of the loop for one line l (the if / elif chain of lines 82-164)
CrashBasicStep(info, lines, l) ==
  LET line == lines[l]
      hasNext == l + 1 <= Len(lines)
      next == lines[l + 1]
  IN
  IF Contains("LOCAL INFORMATION", line) THEN
    [info EXCEPT !.case_number = AfterLocalInformation(line)]
  ELSE IF Contains("REPORT NUMBER *", line) \/ Contains("LOCAL REPORT NUMBER *", line) THEN
    IF hasNext /\ HasReportNumber(next)
      THEN [info EXCEPT !.report_number = ReportNumberOf(next)]
      ELSE info
  ELSE IF StartsWith(line, "REPORTING AGENCY NAME *") THEN
    IF hasNext /\ ~Contains("NCIC *", next)
      THEN [info EXCEPT !.department = Strip(next), !.municipality = Strip(next)]
      ELSE info
  ELSE IF StartsWith(line, "NCIC *") THEN
    IF hasNext /\ ~StartsWith(next, "NUMBER OF UNITS") /\ Len(SplitSpace(next)) >= 2
      THEN LET parts == SplitSpace(next)
               withCode == [info EXCEPT !.municipality_code = parts[1]]
           IN IF IsInt(parts[2])
                THEN [withCode EXCEPT !.no_of_vehicles = IntOf(parts[2])]
                ELSE withCode
      ELSE info
  ELSE IF StartsWith(line, "COUNTY*") THEN
    IF l - 1 >= 1 /\ Contains("UNSOLVED", lines[l - 1]) /\ hasNext
       /\ ~Contains("CITY", next)
      THEN [info EXCEPT !.county = Strip(next)]
      ELSE info
  ELSE IF StartsWith(line, "LOCALITY*") THEN
    IF l - 1 >= 1 /\ EndsWith(lines[l - 1], "TOWNSHIP") /\ hasNext
       /\ ~Contains("LOCATION: CITY, VILLAGE, TOWNSHIP*", next)
      THEN [info EXCEPT !.locality_code = Strip(next)]
      ELSE info
  ELSE IF StartsWith(line, "LOCATION: CITY, VILLAGE, TOWNSHIP*") THEN
    IF hasNext /\ ~Contains("CRASH DATE", next)
      THEN [info EXCEPT !.location = Strip(next)]
      ELSE info
  ELSE IF StartsWith(line, "CRASH DATE / TIME*") THEN
    IF hasNext /\ ~Contains("LATITUDE", next)
      THEN [info EXCEPT !.date_of_crash = Strip(next)]
      ELSE info
  ELSE IF Contains("REFERENCE ROAD NAME (ROAD, MILEPOST, HOUSE #)", line) THEN
    IF hasNext /\ ~Contains("ROUTE TYPE", next)
      THEN [info EXCEPT !.reference_road_name = Strip(next)]
      ELSE info
  ELSE IF StartsWith(line, "LOCATION ROAD NAME") THEN
    IF ((l + 3 <= Len(lines) /\ StartsWith(lines[l + 3], "DISTANCE"))
        \/ (l + 2 <= Len(lines) /\ StartsWith(lines[l + 2], "DISTANCE")))
       /\ ~IsFloat(Strip(next))
      THEN [info EXCEPT !.local_road_name = Strip(next)]
      ELSE info
  ELSE info

RECURSIVE ScanCrashBasic(_, _, _)
ScanCrashBasic(info, lines, l) ==
  IF l > Len(lines) THEN info
  ELSE ScanCrashBasic(CrashBasicStep(info, lines, l), lines, l + 1)

_extract_crash_basic_info(lines) == ScanCrashBasic(CrashInfoDefault, lines, 1)

(***************************************************************************)
(* _extract_case_info (raw_lines)                                          *)
(***************************************************************************)
CaseInfoDefault ==
  [crash_severity |-> 0, locality |-> "TOWNSHIP", route_type |-> "NA",
   route_number |-> "NA", route_prefix |-> "NA"]

locality_map == <<"CITY", "VILLAGE", "TOWNSHIP">>

\* the first offset of offs (in order) whose line holds the anchor, 0 if none
RECURSIVE FirstOffset(_, _, _, _)
FirstOffset(lines, l, offs, anchor) ==
  IF offs = <<>> THEN 0
  ELSE IF l + Head(offs) <= Len(lines) /\ Contains(anchor, lines[l + Head(offs)])
    THEN Head(offs)
    ELSE FirstOffset(lines, l, Tail(offs), anchor)

\* lines 213-216: the last p of the three lines from l+offset on that holds
\* "1 - NORTH" gives the prefix (the loop overwrites), 0 if none
PrefixLine(lines, start) ==
  LET ps == {p \in start .. start + 2 :
               p <= Len(lines) /\ Contains("1 - NORTH", lines[p]) /\ p - 1 >= 1}
  IN IF ps = {} THEN 0 ELSE CHOOSE p \in ps : \A q \in ps : q <= p

\* lines 205-237: the route block found at line l
RouteBlock(info, lines, l) ==
  LET pre == FirstOffset(lines, l, <<7, 8, 9, 10, 11>>, "ROUTE TYPE ROUTE NUMBER PREFIX")
  IN
  IF pre # 0 THEN
    LET p == PrefixLine(lines, l + pre)
        withPrefix == IF p # 0 THEN [info EXCEPT !.route_prefix = Strip(lines[p - 1])]
                               ELSE info
    IN [withPrefix EXCEPT !.route_type = "NA", !.route_number = "NA"]
  ELSE
    LET t == FirstOffset(lines, l, <<7, 8, 9, 10>>, "ROUTE TYPE ROUTE NUMBER")
        n == FirstOffset(lines, l, <<9, 10, 11, 12>>, "PREFIX 1 - NORTH")
        withType == IF t # 0 THEN [info EXCEPT !.route_type = Strip(lines[l + t - 1])]
                             ELSE info
        withNumber == IF n # 0
                        THEN [withType EXCEPT !.route_number = Strip(lines[l + n - 1])]
                        ELSE withType
    IN [withNumber EXCEPT !.route_prefix = "NA"]

\* the scan of lines 178-237; the route block ends it (break, line 237)
RECURSIVE ScanCaseInfo(_, _, _)
ScanCaseInfo(info, lines, l) ==
  IF l > Len(lines) THEN info
  ELSE
    LET line == lines[l]
        hasNext == l + 1 <= Len(lines)
        next == lines[l + 1]
    IN
    IF EndsWith(line, "FATAL") THEN
      LET parts == SeverityParts(line)
      IN ScanCaseInfo(IF Len(parts) > 1 /\ IsInt(Strip(parts[1]))
                        THEN [info EXCEPT !.crash_severity = IntOf(Strip(parts[1]))]
                        ELSE info,
                      lines, l + 1)
    ELSE IF StartsWith(line, "LOCALITY*") THEN
      ScanCaseInfo(
        IF l - 1 >= 1 /\ EndsWith(lines[l - 1], "TOWNSHIP") /\ hasNext
           /\ ~Contains("LOCATION: CITY, VILLAGE, TOWNSHIP*", next)
           /\ IsInt(Strip(next))
           /\ IntOf(Strip(next)) - 1 >= 0 /\ IntOf(Strip(next)) - 1 < 3
          THEN [info EXCEPT !.locality = locality_map[IntOf(Strip(next))]]
          ELSE info,
        lines, l + 1)
    ELSE IF line = "LOCATION" /\ hasNext /\ next = "REFERENCE" THEN
      IF l + 2 <= Len(lines) /\ Contains("ROUTE NUMBER", lines[l + 2])
        THEN RouteBlock(info, lines, l)
        ELSE ScanCaseInfo(info, lines, l + 1)
    ELSE ScanCaseInfo(info, lines, l + 1)

_extract_case_info(lines) == ScanCaseInfo(CaseInfoDefault, lines, 1)

(***************************************************************************)
(* _extract_vehicles (pure_lines)                                          *)
(***************************************************************************)
_build_vehicle_dict(veh, veh_info) ==
  [vehicle_unit |-> Get(veh, "vehicle_unit", 1),
   is_commercial |-> Get(veh, "is_commercial", FALSE),
   make |-> Get(veh, "make", ""),
   model |-> Get(veh, "model", ""),
   year |-> Get(veh, "year", 0),
   plate_no |-> Get(veh, "plate_no", ""),
   plate_state |-> Get(veh, "plate_state", ""),
   vin |-> Get(veh, "vin", ""),
   policy_no |-> Get(veh, "policy_no", ""),
   is_towed |-> Get(veh, "is_towed", FALSE),
   is_hit_and_run |-> Get(veh, "is_hit_and_run", FALSE),
   vehicle_type |-> Get(veh, "vehicle_type", 1),
   no_of_trailer |-> Get(veh, "no_of_trailer", 0),
   color |-> Get(veh, "color", ""),
   veh_body_type |-> Get(veh, "veh_body_type", ""),
   special_function |-> Get(veh, "special_function", ""),
   is_parked |-> Get(veh, "is_parked", FALSE),
   vehicle_info |-> veh_info,
   persons |-> <<>>]

\* line 251: the composite anchor that starts a vehicle section
IsVehicleStart(line) ==
  /\ Contains("UNIT #", line)
  /\ Contains("OWNER NAME: LAST, FIRST, MIDDLE", line)
  /\ Contains("SAME AS DRIVER", line)
  /\ Contains("OWNER PHONE", line)

\* the state of the scan: the list built so far and the open vehicle.
\* open is "current_vehicle is not None"; starts / cur_start record the line
\* index of the start anchor of each vehicle (kept beside the code's data).
VehicleScanInit ==
  [vehicles |-> <<>>, open |-> FALSE, cur |-> EmptyDict, info |-> EmptyDict,
   starts |-> <<>>, cur_start |-> 0, stopped |-> FALSE]

\* vehicles.append(self._build_vehicle_dict(current_vehicle, current_vehicle_info))
AppendVehicle(st) ==
  [st EXCEPT !.vehicles = Append(st.vehicles, _build_vehicle_dict(st.cur, st.info)),
             !.starts = Append(st.starts, st.cur_start)]

\* lines 260-273: the header line after the start anchor
ReadHeader(st, next) ==
  LET parts == HeaderParts(next)
      u == IF Len(parts) >= 1 /\ IsInt(parts[1])
             THEN [st EXCEPT !.cur = Put(st.cur, "vehicle_unit", IntOf(parts[1])),
                             !.info = Put(st.info, "vehicle_unit", IntOf(parts[1]))]
             ELSE st
      n == IF Len(parts) >= 2 /\ parts[2] # ","
             THEN [u EXCEPT !.cur = Put(u.cur, "owner_name", parts[2])]
             ELSE u
  IN IF Len(parts) >= 3
       THEN [n EXCEPT !.cur = Put(n.cur, "owner_phone", parts[3])]
       ELSE n

\* lines 302-331: the line after the LP STATE anchor
ReadPlate(st, next) ==
  IF Contains("INSURANCE", next) /\ Contains("INSURANCE COMPANY", next) THEN
    [st EXCEPT !.cur = Put(Put(Put(Put(Put(st.cur, "vin", "NA"), "plate_state", "NA"),
                                   "plate_no", "NA"), "year", 0), "make", "NA")]
  ELSE
    LET parts == WideParts(next)
        v == IF HasVin(next) THEN [st EXCEPT !.cur = Put(st.cur, "vin", VinOf(next))]
             ELSE st
    IN IF Len(parts) >= 5 THEN
         LET plate == Put(Put(v.cur, "plate_state", parts[1]), "plate_no", parts[2])
             year == IF IsInt(parts[4]) THEN Put(plate, "year", IntOf(parts[4]))
                     ELSE plate
         IN [v EXCEPT !.cur = Put(year, "make", parts[5])]
       ELSE IF Len(parts) = 1
               /\ (Contains("UNKNOWN", parts[1]) \/ Contains("OTHER", parts[1])) THEN
         [v EXCEPT !.cur = Put(v.cur, "make", parts[1])]
       ELSE v

\* the body of the loop for line i (lines 248-529).  Of the elif chain the
\* branches are given whose anchors occur in the universe: the vehicle start
\* (251), the licence plate (301), the harmful events (481) and the date of
\* birth (524).
VehicleStep(st, lines, i) ==
  LET line == lines[i]
  IN
  IF IsVehicleStart(line) THEN
    LET saved == IF st.open THEN AppendVehicle(st) ELSE st
        fresh == [saved EXCEPT !.open = TRUE, !.cur = EmptyDict, !.info = EmptyDict,
                               !.cur_start = i]
    IN IF i + 1 <= Len(lines) THEN ReadHeader(fresh, lines[i + 1]) ELSE fresh
  ELSE IF st.open /\ Truthy(st.cur) /\ Contains("LP STATE", line)
          /\ Contains("LICENSE PLATE", line)
          /\ Contains("VEHICLE IDENTIFICATION", line) THEN
    IF i + 1 <= Len(lines) THEN ReadPlate(st, lines[i + 1]) ELSE st
  ELSE IF st.open /\ Truthy(st.cur) /\ Contains("FIRST HARMFUL EVENT", line)
          /\ Contains("MOST HARMFUL EVENT", line) THEN
    LET h1 == IF HasFirstHarmful(line)
                THEN [st EXCEPT !.info = Put(st.info, "harmful_event", FirstHarmfulOf(line))]
                ELSE st
        h2 == IF HasMostHarmful(line)
                THEN [h1 EXCEPT !.info = Put(h1.info, "most_harmful_event",
                                             MostHarmfulOf(line))]
                ELSE h1
    IN [AppendVehicle(h2) EXCEPT !.open = FALSE, !.cur = EmptyDict, !.info = EmptyDict]
  ELSE IF st.open /\ Truthy(st.cur) /\ Contains("DATE OF BIRTH", line) THEN
    [AppendVehicle(st) EXCEPT !.open = FALSE, !.cur = EmptyDict, !.info = EmptyDict,
                              !.stopped = TRUE]
  ELSE st

RECURSIVE ScanVehicles(_, _, _)
ScanVehicles(st, lines, i) ==
  IF i > Len(lines) \/ st.stopped THEN st
  ELSE ScanVehicles(VehicleStep(st, lines, i), lines, i + 1)

\* the last section appended after the loop whether or not an event closed it
_extract_vehiclesNoReset(lines) ==
  LET st == ScanVehicles(VehicleScanInit, lines, 1)
  IN IF st.cur_start > 0 THEN AppendVehicle(st) ELSE st

\* lines 531-535: the vehicle still open after the loop
_extract_vehicles(lines) ==
  LET st == ScanVehicles(VehicleScanInit, lines, 1)
  IN IF st.open /\ Truthy(st.cur) THEN AppendVehicle(st) ELSE st

(***************************************************************************)
(* _extract_persons (raw_lines)                                            *)
(***************************************************************************)
\* line 573: the anchor that starts a person section
IsPersonStart(lines, i) ==
  /\ Contains("INJURIES", lines[i])
  /\ \/ Contains("INJURED", lines[i])
     \/ (i + 2 <= Len(lines) /\ Contains("INJURED", lines[i + 2]))

\* open is "current_person is not None"; raised: the scan raised an exception;
\* starts / cur_start record the line index of each person's start anchor.
PersonScanInit ==
  [persons |-> <<>>, open |-> FALSE, cur |-> EmptyDict, info |-> EmptyDict,
   driver |-> EmptyDict, person_index |-> 0, raised |-> FALSE,
   starts |-> <<>>, cur_start |-> 0]

\* the person appended under the number of the one before
AppendPersonSameIndex(st) ==
  LET n == st.person_index
  IN [st EXCEPT !.persons = Append(st.persons,
                              [basic |-> Put(st.cur, "person_index", n),
                               info |-> Put(st.info, "person_index", n),
                               driver |-> Put(st.driver, "person_index", n)]),
                !.starts = Append(st.starts, st.cur_start)]

\* lines 576-585 and 883-891: number the open person and append it
AppendPerson(st) ==
  LET n == st.person_index + 1
  IN [st EXCEPT !.person_index = n,
                !.persons = Append(st.persons,
                              [basic |-> Put(st.cur, "person_index", n),
                               info |-> Put(st.info, "person_index", n),
                               driver |-> Put(st.driver, "person_index", n)]),
                !.starts = Append(st.starts, st.cur_start)]

\* lines 575-585.  With no person open, line 579 as written assigns into
\* current_person_info = None and raises TypeError; read one level deeper it
\* is skipped with the rest of the block.
SavePrevious(st, guarded) ==
  IF st.open THEN AppendPerson(st)
  ELSE IF guarded THEN st
  ELSE [st EXCEPT !.raised = TRUE]

\* lines 588-626: the new person and the fields read at its start anchor
StartPerson(st, lines, i) ==
  LET has(k, a) == i + k <= Len(lines) /\ Contains(a, lines[i + k])
      injuries == IF has(2, "INJURED") THEN lines[i + 1] ELSE "0"
      i1 == Put(EmptyDict, "injuries", injuries)
      i2 == IF has(2, "BY")
              THEN IF HasDigits(lines[i + 2])
                     THEN Put(i1, "injured_taken_by_ems", DigitsOf(lines[i + 2]))
                     ELSE i1
              ELSE IF has(4, "BY") /\ HasDigits(lines[i + 4])
                     THEN Put(i1, "injured_taken_by_ems", DigitsOf(lines[i + 4]))
                     ELSE i1
      ems == IF has(5, "EMS AGENCY (NAME)") /\ has(7, "INJURED TAKEN TO: MEDICAL FACILITY")
               THEN Strip(lines[i + 6])
             ELSE IF has(3, "EMS AGENCY (NAME)")
                     /\ has(5, "INJURED TAKEN TO: MEDICAL FACILITY")
               THEN Strip(lines[i + 4])
             ELSE "NA"
      to == IF has(7, "INJURED TAKEN TO: MEDICAL FACILITY") /\ has(9, "SAFETY EQUIPMENT")
              THEN Strip(lines[i + 8])
            ELSE IF has(5, "INJURED TAKEN TO: MEDICAL FACILITY")
                    /\ has(7, "SAFETY EQUIPMENT")
              THEN Strip(lines[i + 6])
            ELSE IF has(3, "INJURED TAKEN TO: MEDICAL FACILITY")
                    /\ has(5, "SAFETY EQUIPMENT")
              THEN Strip(lines[i + 4])
            ELSE "NA"
  IN [st EXCEPT !.open = TRUE, !.cur = EmptyDict, !.driver = EmptyDict,
                !.info = Put(Put(i2, "name_of_ems", ems), "injured_taken_to", to),
                !.cur_start = i]

\* lines 666-688: the unit number and the name of the open person
UnitAndName(st, lines, i) ==
  LET u == IF i + 1 <= Len(lines) /\ IsInt(Strip(lines[i + 1]))
             THEN LET n == IntOf(Strip(lines[i + 1]))
                  IN [st EXCEPT !.cur = Put(st.cur, "vehicle_number", n),
                                !.info = Put(st.info, "vehicle_unit", n),
                                !.driver = Put(st.driver, "vehicle_unit", n)]
             ELSE st
      setNames(f, l, m) ==
        [u EXCEPT !.cur = Put(Put(Put(u.cur, "first_name", f), "last_name", l),
                              "middle_name", m)]
  IN IF i + 3 <= Len(lines)
       THEN LET name == lines[i + 3]
                names == SplitComma(name)
            IN IF ~Contains("CONTACT PHONE", name) /\ ~HasDate(name)
                 THEN IF ~Contains("UNKNOWN", name)
                        THEN setNames(IF Len(names) >= 1 THEN Strip(names[1]) ELSE "NA",
                                      IF Len(names) >= 2 THEN Strip(names[2]) ELSE "NA",
                                      IF Len(names) = 3 THEN Strip(names[3]) ELSE "NA")
                        ELSE setNames("UNKNOWN", "UNKNOWN", "UNKNOWN")
                 ELSE setNames("NA", "NA", "NA")
       ELSE u

\* the body of the loop for line i (lines 570-879).  Every elif branch is
\* guarded by the truth value of current_person; of these the branch of the
\* unit number and name (666) is given.
PersonStep(st, lines, i, guarded) ==
  IF IsPersonStart(lines, i) THEN
    LET saved == SavePrevious(st, guarded)
    IN IF saved.raised THEN saved ELSE StartPerson(saved, lines, i)
  ELSE IF st.open /\ Truthy(st.cur) /\ Contains("UNIT  #", lines[i])
          /\ i + 2 <= Len(lines)
          /\ Contains("NAME: LAST, FIRST, MIDDLE", lines[i + 2]) THEN
    UnitAndName(st, lines, i)
  ELSE st

RECURSIVE ScanPersons(_, _, _, _)
ScanPersons(st, lines, i, guarded) ==
  IF i > Len(lines) \/ st.raised THEN st
  ELSE ScanPersons(PersonStep(st, lines, i, guarded), lines, i + 1, guarded)

\* lines 881-893: the person still open after the loop
_extract_persons(lines, guarded) ==
  LET st == ScanPersons(PersonScanInit, lines, 1, guarded)
  IN IF ~st.raised /\ st.open THEN AppendPerson(st) ELSE st

(***************************************************************************)
(* _map_persons_to_vehicles                                                *)
(***************************************************************************)
\* str(d.get(k, "")) for a key that holds an int when it is set
StrGet(d, k) == IF k \in DOMAIN d THEN ToString(d[k]) ELSE ""

\* lines 908-954: the person record
PersonJson(person_data) ==
  LET person_basic == person_data.basic
      person_info == person_data.info
      driver_info == person_data.driver
  IN
  [person_type |-> "",
   first_name |-> Get(person_basic, "first_name", ""),
   middle_name |-> Get(person_basic, "middle_name", ""),
   last_name |-> Get(person_basic, "last_name", ""),
   same_as_driver |-> IF Get(person_basic, "is_same_as_driver", FALSE) THEN "1" ELSE "0",
   address_block |->
     [address_line1 |-> Get(person_basic, "address", ""),
      address_city |-> Get(person_basic, "city", ""),
      address_state |-> Get(person_basic, "state", ""),
      address_zip |-> Get(person_basic, "zip", "")],
   seating_position |-> StrGet(person_info, "seating_position"),
   date_of_birth |-> Get(person_info, "date_of_birth", ""),
   gender |-> Get(person_info, "gender", ""),
   alcohol_or_drug_involved |-> "",
   ethnicity |-> "",
   occupant |-> "",
   airbag_deployed |-> StrGet(person_info, "air_bag_deployed"),
   airbag_status |-> StrGet(person_info, "air_bag_status"),
   trapped |-> StrGet(person_info, "trapped"),
   ejection |-> StrGet(person_info, "ejection"),
   injury |-> Get(person_info, "injuries", ""),
   ems_name |-> Get(person_info, "name_of_ems", ""),
   injured_taken_by_ems |-> Get(person_info, "injured_taken_by_ems", ""),
   age |-> StrGet(person_info, "age"),
   injured_taken_to |-> Get(person_info, "injured_taken_to", ""),
   driver_info_id |-> "",
   alcohol_test_status |-> Get(driver_info, "alcohol_test_status", ""),
   alcohol_test_type |-> Get(driver_info, "alcohol_test_type", ""),
   alcohol_test_value |-> Get(driver_info, "alcohol_test_value", ""),
   drug_test_status |-> Get(driver_info, "drug_test_status", ""),
   drug_test_type |-> Get(driver_info, "drug_test_type", ""),
   drug_test_value |-> Get(driver_info, "drug_test_value", ""),
   offense_charged |-> Get(driver_info, "offense_charged", ""),
   local_code |-> "",
   offense_description |-> Get(driver_info, "offense_description", ""),
   citation_number |-> Get(driver_info, "citation_number", ""),
   contact_number |-> Get(driver_info, "contact_number", ""),
   ol_class |-> Get(driver_info, "ol_class", ""),
   endorsement |-> Get(driver_info, "endorsement", ""),
   restriction |-> Get(driver_info, "restriction", ""),
   driver_distracted_by |-> Get(driver_info, "driver_distracted_by", ""),
   driving_license |-> Get(driver_info, "driving_licence", ""),
   dl_state |-> Get(driver_info, "dl_state", ""),
   alcohol_or_drug_suspected |-> Get(driver_info, "alcohol_drug_suspected", "")]

\* line 902: the unit the person is looked up under
PersonUnit(person_data) == Get(person_data.basic, "vehicle_number", 1)

\* lines 905-957: the first vehicle of the list with that unit, 0 if none
MatchingVehicle(vehicles, unit) ==
  LET js == {j \in 1 .. Len(vehicles) : vehicles[j].vehicle_unit = unit}
  IN IF js = {} THEN 0 ELSE CHOOSE j \in js : \A q \in js : j <= q

\* the loop of line 897 from person k on.  m.vehicles is the list being
\* filled; m.attached[j] lists, beside it, the positions in persons of the
\* persons appended to vehicle j.
RECURSIVE MapFrom(_, _, _)
MapFrom(m, persons, k) ==
  IF k > Len(persons) THEN m
  ELSE
    LET j == MatchingVehicle(m.vehicles, PersonUnit(persons[k]))
    IN IF j = 0 THEN MapFrom(m, persons, k + 1)
       ELSE MapFrom(
              [vehicles |-> [m.vehicles EXCEPT ![j].persons =
                               Append(@, PersonJson(persons[k]))],
               attached |-> [m.attached EXCEPT ![j] = Append(@, k)]],
              persons, k + 1)

_map_persons_to_vehicles(vehicles, persons) ==
  MapFrom([vehicles |-> vehicles, attached |-> [j \in 1 .. Len(vehicles) |-> <<>>]],
          persons, 1)

(***************************************************************************)
(* _build_final_json                                                       *)
(***************************************************************************)
\* str(d.get(k, default)) for a key that holds an int when it is set
StrGetOr(d, k, default) == IF k \in DOMAIN d THEN ToString(d[k]) ELSE default

\* "1" if d.get(k, False) else "0"
Flag(d, k) == IF Get(d, k, FALSE) THEN "1" ELSE "0"

\* lines 977-1028: the record of one vehicle.  veh_body_type is "" in every
\* vehicle of the universe (its anchor, SPECIAL ... SHARING, is not in it).
VehicleJson(veh) ==
  LET veh_info == Get(veh, "vehicle_info", EmptyDict)
  IN
  [vehicle_unit |-> StrGetOr(veh, "vehicle_unit", "1"),
   is_commercial |-> Flag(veh, "is_commercial"),
   make |-> " " \o Get(veh, "make", ""),
   model |-> Get(veh, "model", ""),
   vehicle_year |-> StrGetOr(veh, "year", ""),
   plate_number |-> " " \o Get(veh, "plate_no", ""),
   plate_state |-> " " \o Get(veh, "plate_state", ""),
   plate_year |-> "",
   vin |-> Get(veh, "vin", ""),
   policy |-> Get(veh, "policy_no", ""),
   is_driven |-> "",
   is_left_at_scene |-> "",
   is_towed |-> Flag(veh, "is_towed"),
   is_impounded |-> "",
   is_disabled |-> "",
   is_parked |-> Flag(veh, "is_parked"),
   is_pedestrian |-> "",
   is_pedal_cyclist |-> "",
   is_hit_and_run |-> Flag(veh, "is_hit_and_run"),
   vehicle_used |-> "",
   vehicle_type |-> StrGetOr(veh, "vehicle_type", "1"),
   trailer_or_carrier_count |-> StrGetOr(veh, "no_of_trailer", "0"),
   color |-> Get(veh, "color", ""),
   vehicle_body_type |-> Get(veh, "veh_body_type", ""),
   vehicle_travel_direction |-> "",
   vehicle_details |->
     [crash_seq_1st_event |-> StrGet(veh_info, "crash_seq_1st_event"),
      crash_seq_2nd_event |-> StrGet(veh_info, "crash_seq_2nd_event"),
      crash_seq_3rd_event |-> StrGet(veh_info, "crash_seq_3rd_event"),
      crash_seq_4th_event |-> StrGet(veh_info, "crash_seq_4th_event"),
      harmful_event |-> StrGet(veh_info, "harmful_event"),
      authorized_speed |-> "",
      estimated_original_speed |-> "",
      estimated_impact_speed |-> "",
      tad |-> "",
      estimated_damage |-> "",
      most_harmful_event |-> StrGet(veh_info, "most_harmful_event"),
      insurance_company |-> Get(veh_info, "insurance_company", ""),
      insurance_verified |-> Get(veh_info, "insurance_verified", ""),
      us_dot |-> Get(veh_info, "us_dot", ""),
      towed_by |-> Get(veh_info, "towed_by", ""),
      occupant_count |-> StrGet(veh_info, "no_of_occupants"),
      initial_impact |-> Get(veh_info, "initial_impact", ""),
      contributing_circumstance |-> StrGet(veh_info, "contributing_circumstance"),
      damage_severity |-> Get(veh_info, "damage_severity", ""),
      damaged_area |-> Get(veh_info, "damaged_area", ""),
      vehicle_defects |-> Get(veh_info, "vehicle_defects", ""),
      overweight_permit |-> ""],
   persons |-> Get(veh, "persons", <<>>)]

\* lines 964-970
DateOfCrash(crash_info, pads) ==
  IF crash_info.date_of_crash # "" THEN NormalizedDate(crash_info.date_of_crash, pads)
  ELSE ""

\* the vehicles of the list passed on as they are, not rebuilt
VehiclesJsonNotRebuilt(vehicles) == vehicles

\* lines 973-1030: one record per vehicle, in the order of the list
VehiclesJson(vehicles) == [j \in 1 .. Len(vehicles) |-> VehicleJson(vehicles[j])]

_build_final_json(crash_info, case_info, vehicles, path, pads) ==
  [incident_number |-> Get(crash_info, "case_number", ""),
   report_number |-> Get(crash_info, "report_number", ""),
   department |-> Get(crash_info, "department", ""),
   state_code |-> "",
   state_abbreviation |-> "OH",
   state_name |-> "OHIO",
   county_code |-> "",
   county |-> Get(crash_info, "county", ""),
   municipality_code |-> Get(crash_info, "municipality_code", ""),
   municipality |-> Get(crash_info, "municipality_code", ""),
   crash_location |-> Get(crash_info, "location", ""),
   crash_type_l1 |-> "",
   crash_type_l2 |-> "",
   date_of_crash |-> DateOfCrash(crash_info, pads),
   total_killed |-> "",
   total_injured |-> "",
   total_vehicles |-> StrGet(crash_info, "no_of_vehicles"),
   case_file_s3_path |-> "",
   s3_bucket_name |-> "",
   s3_access_key |-> "",
   s3_secret_key |-> "",
   pdf_file_path |-> path,
   case_detail |->
     <<[local_information |-> "",
        locality |-> Get(case_info, "locality", "TOWNSHIP"),
        location |-> "NA",
        route_type |-> Get(case_info, "route_type", "NA"),
        route_number |-> Get(case_info, "route_number", "NA"),
        route_prefix |-> Get(case_info, "route_prefix", "NA"),
        lane_speed_limit_1 |-> "",
        lane_speed_limit_2 |-> "",
        crash_severity |-> StrGet(case_info, "crash_severity")]>>,
   vehicles |-> VehiclesJson(vehicles)]

(***************************************************************************)
(* Documents                                                               *)
(***************************************************************************)
\* the sequences of at most max lines over the alphabet A
LineSeqs(A, max) == UNION {[1 .. n -> A] : n \in 0 .. max}

\* the page boundaries that cut n lines into k pages
Cuts(n, k) ==
  {c \in [1 .. k + 1 -> 0 .. n] :
     c[1] = 0 /\ c[k + 1] = n /\ \A j \in 1 .. k : c[j] <= c[j + 1]}

\* page.extract_text(layout=True) and page.extract_text(layout=False) of a page,
\* split at line breaks.  The documents taken are those where both modes
\* yield the same line texts.
Page(ls) == [raw |-> ls, pure |-> ls]

Paginate(s, c) == [j \in 1 .. Len(c) - 1 |-> Page(SubSeq(s, c[j] + 1, c[j + 1]))]

\* the documents of at most MaxPages pages and max lines over the alphabet A
Pdfs(A, max) ==
  {<<>>} \cup
  UNION {UNION {{Paginate(s, c) : c \in Cuts(Len(s), k)} : k \in 1 .. MaxPages} :
           s \in LineSeqs(A, max)}

\* the documents of at most MaxPages pages whose lines are a sequence of S
PdfsOf(S) ==
  UNION {UNION {{Paginate(s, c) : c \in Cuts(Len(s), k)} : k \in 1 .. MaxPages} : s \in S}

\* the lines of a person section with its unit number and name: the start
\* anchor, "UNIT  #", the number, the name anchor, the name line
PersonBlock(name) ==
  <<PersonStartLine, UnitLine, UnitNumberLine, NameAnchorLine, name>>

\* a person section under at most MaxPrefixLines lines of vehicle sections
NameSeqs ==
  {v \o PersonBlock(name) :
     v \in LineSeqs({VehicleStartLine, Header1Line}, MaxPrefixLines),
     name \in {NameLine, DateLine}}

MainAlphabet ==
  {BlankLine, VehicleStartLine, Header1Line, Header2Line, PersonStartLine}

CrashAlphabet == {VehicleStartLine, Header1Line, NcicLine, NcicDataLine}

VehicleAlphabet == {VehicleStartLine, Header1Line, Header2Line}

PlateAlphabet == {VehicleStartLine, Header1Line, LpStateLine, LpDataLine, LpWideLine}

AgencyAlphabet == {AgencyLine, AgencyNameLine, NcicLine, NcicDataLine}

MapAlphabet == {VehicleStartLine, Header1Line, PersonStartLine}

CloseAlphabet == {VehicleStartLine, Header1Line, HarmfulLine, DobLine}

VinAlphabet == {VehicleStartLine, Header1Line, LpStateLine, LpDataLine, LpLongLine}

InfoAlphabet == {LocalInfoLine, LocalInfo2Line, ReportNumberLine, ReportDataLine}

DateAlphabet == {CrashDateLine, DateLine, BadDateLine, OldDateLine, ShortDateLine}

PdfPath == "downloads/20235016815.pdf"

\* the documents of a batch are the files report1.pdf, report2.pdf, ... of the
\* downloads directory
DocStem(d) == "report" \o ToString(d)

DocPath(d) == "downloads/" \o DocStem(d) \o ".pdf"

\* pdf_path.stem
Stem(path) ==
  IF path = PdfPath THEN "20235016815"
  ELSE DocStem(CHOOSE d \in 1 .. MaxDocs : DocPath(d) = path)

(***************************************************************************)
(* Line model: lines 25-34                                                 *)
(***************************************************************************)
\* the lines kept without the test on line.strip()
NonBlankKeepAll(ls) == ls

\* [line for line in lines if line.strip()]
NonBlank(ls) == SelectSeq(ls, LAMBDA line : Strip(line) # "")

RECURSIVE PageLinesLastPageFirst(_, _, _)
\* the pages read from the last one to the first
PageLinesLastPageFirst(pages, p, mode) ==
  IF p > Len(pages) THEN <<>>
  ELSE PageLinesLastPageFirst(pages, p + 1, mode)
         \o NonBlank(IF mode = "raw" THEN pages[p].raw ELSE pages[p].pure)

RECURSIVE PageLines(_, _, _)
\* the non-blank lines of pages p.. of the document, in one mode
PageLines(pages, p, mode) ==
  IF p > Len(pages) THEN <<>>
  ELSE NonBlank(IF mode = "raw" THEN pages[p].raw ELSE pages[p].pure)
         \o PageLines(pages, p + 1, mode)

(***************************************************************************)
(* State                                                                   *)
(***************************************************************************)
VARIABLES
  saveGuarded,   \* lines 579-585 read inside the if of line 575
  padsYear,      \* the C library's strftime gives %Y in four digits
  pdf,           \* the pages of the document at pdf_path
  raw_lines,     \* self.raw_lines
  pure_lines,    \* self.pure_lines
  pc,            \* the position in parse() / convert_pdf_to_json()
  crash_info,    \* locals of parse()
  case_info,
  vehicles,
  persons,
  origin,        \* line indexes of the start anchors behind vehicles / persons
  result,        \* the value parse() returned last
  runs,          \* the values returned by the parse() calls on this parser
  files,         \* the output directory: file name -> content
  batch,         \* the convert_pdf_to_json calls of a batch, one per document
  output_dir,    \* the output directory the calls of the batch share
  writes,        \* the writes done by the calls of the batch: (document, file)
  solver,        \* the CaptchaSolver object and the _solve_sync call under way
  login,         \* the captcha retry loop of main()
  download       \* download_all_reports() and the download directory

vars ==
  <<saveGuarded, padsYear, pdf, raw_lines, pure_lines, pc, crash_info, case_info,
    vehicles, persons, origin, result, runs, files, batch, output_dir, writes,
    solver, login, download>>

\* the state of the scraper: src/utils/captcha_solver.py and src/main.py
webVars == <<solver, login, download>>

\* the state of the calls of a batch
batchVars == <<batch, output_dir, writes>>

\* the state of the single parser
parserVars ==
  <<pdf, raw_lines, pure_lines, pc, crash_info, case_info, vehicles, persons, origin,
    result, runs, files>>

MaxParses == 2

NoOrigin == [vehicle_start |-> <<>>, person_start |-> <<>>, attached |-> <<>>]

(***************************************************************************)
(* The captcha service: CaptchaSolver of src/utils/captcha_solver.py       *)
(***************************************************************************)
\* line 149
max_attempts == 60

\* the "text" member of a JSON answer of the service: absent, null or a string
JsonTexts ==
  {[kind |-> "absent", s |-> ""], [kind |-> "null", s |-> ""]} \cup
  {[kind |-> "str", s |-> s] : s \in {"", " ", "AB12CD", "XY34ZW"}}

NoText == [kind |-> "absent", s |-> ""]

\* the "is_correct" member: absent, true, false, 0 or 1
JsonFlags == {"absent", "true", "false", "0", "1"}

\* bool(data.get('text'))
TextTruthy(v) == v.kind = "str" /\ v.s # ""

\* str(data.get('text', ''))
TextStr(v) ==
  CASE v.kind = "absent" -> ""
    [] v.kind = "null" -> "None"
    [] v.kind = "str" -> v.s

\* bool(is_correct)
FlagTruthy(f) == f \in {"true", "1"}

\* is_correct == 0 or is_correct is False
FlagZeroOrFalse(f) == f \in {"false", "0"}

\* the bodies of the answers: no JSON, a JSON list, or a JSON object with its
\* members status, captcha (0: absent or 0; 1: an id), text and is_correct
Bodies ==
  {[json |-> j, status |-> 0, captcha |-> 0, text |-> NoText, is_correct |-> "absent"] :
     j \in {"invalid", "list"}} \cup
  {[json |-> "dict", status |-> st, captcha |-> c, text |-> t, is_correct |-> f] :
     st \in {0, 255}, c \in {0, 1}, t \in JsonTexts, f \in JsonFlags}

\* what requests.post / requests.get gives: an exception, or a response
NoResponse ==
  [raised |-> TRUE, status_code |-> 0,
   body |-> [json |-> "invalid", status |-> 0, captcha |-> 0, text |-> NoText,
             is_correct |-> "absent"]]

Responses ==
  {NoResponse} \cup
  {[raised |-> FALSE, status_code |-> c, body |-> b] : c \in {200, 303, 500}, b \in Bodies}

\* the solver after CaptchaSolver(username, password) (lines 8-20).  calls
\* counts the _solve_sync calls; ret is the value the last call returned, why
\* the branch it returned from, answer the "text" member it took its text from
SolverNew ==
  [pc |-> "idle", last_response_text |-> "", last_captcha_id |-> 0, captcha_id |-> 0,
   attempt |-> 0, ret |-> FALSE, why |-> "", answer |-> NoText, calls |-> 0]

\* return r from _solve_sync
SolveReturn(s, r, why) == [s EXCEPT !.pc = "idle", !.ret = r, !.why = why]

\* lines 86-146 and 195-199: the upload and its answer r
UploadStep(s, r) ==
  LET call == [s EXCEPT !.calls = @ + 1, !.attempt = 0, !.captcha_id = 0,
                        !.answer = NoText]
  IN
  IF r.raised THEN SolveReturn(call, FALSE, "exception")
  ELSE IF r.status_code \notin {200, 303} THEN SolveReturn(call, FALSE, "upload")
  ELSE IF r.body.json = "invalid" THEN SolveReturn(call, FALSE, "upload")
  ELSE IF r.body.json = "list" THEN SolveReturn(call, FALSE, "exception")
  ELSE IF r.body.status = 255 THEN SolveReturn(call, FALSE, "api error")
  ELSE IF r.body.captcha = 0 THEN SolveReturn(call, FALSE, "no id")
  ELSE
    LET held == [call EXCEPT !.captcha_id = call.calls, !.last_captcha_id = call.calls]
    IN IF TextTruthy(r.body.text)
         THEN SolveReturn([held EXCEPT !.last_response_text = Strip(TextStr(r.body.text)),
                                       !.answer = r.body.text],
                          TRUE, "solved")
         ELSE [held EXCEPT !.pc = "polling"]

\* lines 151-190: one turn of the polling loop and its answer r
PollStep(s, r) ==
  LET next == [s EXCEPT !.attempt = @ + 1]
  IN
  IF r.raised THEN next
  ELSE IF r.status_code # 200 THEN next
  ELSE IF r.body.json # "dict" THEN next
  ELSE
    LET text == Strip(TextStr(r.body.text))
    IN IF text # "" /\ FlagTruthy(r.body.is_correct)
         THEN SolveReturn([s EXCEPT !.last_response_text = text, !.answer = r.body.text],
                          TRUE, "solved")
       ELSE IF FlagZeroOrFalse(r.body.is_correct)
         THEN SolveReturn(s, FALSE, "incorrect")
       ELSE next

(***************************************************************************)
(* The captcha retry loop of main() (src/main.py, lines 333-385)           *)
(***************************************************************************)
\* line 335
max_retries == 3

\* the texts a call that returns True leaves in solver.last_response_text
SolvedTexts == {"AB12CD", "XY34ZW", "", "None"}

\* lines 338-352: one turn of the loop; outcome is what the call of
\* solve_captcha_from_bytes did: returned True, returned False, or raised
LoginTurn(l, outcome) ==
  LET n == [l EXCEPT !.attempt = @ + 1, !.outcomes = Append(@, outcome)]
      on == IF n.attempt = max_retries THEN "after" ELSE "retry"
  IN CASE outcome = "true" -> [n EXCEPT !.captcha_solved = TRUE, !.pc = "after"]
       [] outcome = "false" -> [n EXCEPT !.captcha_solved = FALSE, !.pc = on]
       [] outcome = "raise" -> [n EXCEPT !.pc = on]

\* the loop before its first turn.  outcomes lists what the calls of
\* solve_captcha_from_bytes did for this captcha; filled is the text put into
\* #txtCaptcha, submitted tells that Enter was pressed on it, manual that the
\* operator was asked to solve the captcha
LoginNew ==
  [pc |-> "retry", attempt |-> 0, captcha_solved |-> FALSE, outcomes |-> <<>>,
   has_filled |-> FALSE, filled |-> "", submitted |-> FALSE, manual |-> FALSE,
   captchas |-> 1]

(***************************************************************************)
(* download_all_reports() (src/main.py, lines 141-199)                     *)
(***************************************************************************)
\* the document numbers of the rows of a results table (line 152)
DocumentNumbers == {"20235016815", "20235016816"}

\* DOWNLOAD_DIR / f"{document_number}.pdf" (line 154)
FilePath(document_number) == "downloads/" \o document_number \o ".pdf"

\* the test of line 156 left out
FileExistsNever(dir, file_path) == FALSE

\* file_path.exists() (line 156)
FileExists(dir, file_path) == file_path \in DOMAIN dir

\* resp.headers.get("Content-Type", "") of the answers to the POST
ContentTypes == {"application/pdf", "Application/PDF; charset=binary", "text/html", ""}

\* "pdf" in content_type.lower() (line 192)
HasPdf(content_type) ==
  content_type \in {"application/pdf", "Application/PDF; charset=binary"}

\* the bytes resp.read() gives
Payloads == {"%PDF-1.4 a", "%PDF-1.4 b"}

\* the results tables of at most MaxRows rows
RowSeqs == UNION {[1 .. n -> DocumentNumbers] : n \in 0 .. MaxRows}

\* the download directory before the run: some of the files are there
Dirs == {[p \in {FilePath(d) : d \in S} |-> "%PDF-1.4 old"] : S \in SUBSET DocumentNumbers}

\* no results table read.  rows is the table, i the row under way, dir the
\* download directory (path -> bytes) and before its content at the start;
\* fetched lists the answers to the POSTs, written the write_bytes calls
DownloadIdle ==
  [pc |-> "done", rows |-> <<>>, i |-> 1, dir |-> EmptyDict, before |-> EmptyDict,
   fetched |-> {}, written |-> {}]

\* lines 144-146: the table read
DownloadStart(rows, dir) ==
  [pc |-> "row", rows |-> rows, i |-> 1, dir |-> dir, before |-> dir,
   fetched |-> {}, written |-> {}]

\* the scraper at rest
WebIdle ==
  /\ solver = SolverNew
  /\ login = LoginNew
  /\ download = DownloadIdle

\* the parser and the batch at rest
Quiet ==
  /\ saveGuarded = FALSE
  /\ padsYear = FALSE
  /\ pdf = <<>>
  /\ raw_lines = <<>>
  /\ pure_lines = <<>>
  /\ pc = "open"
  /\ crash_info = CrashInfoDefault
  /\ case_info = CaseInfoDefault
  /\ vehicles = <<>>
  /\ persons = <<>>
  /\ origin = NoOrigin
  /\ result = NoneValue
  /\ runs = <<>>
  /\ files = EmptyDict
  /\ batch = <<>>
  /\ output_dir = EmptyDict
  /\ writes = {}

\* the state after OhioPdfParser(pdf_path) (lines 15-18), for a document of D
\* and a C library of P
InitOn(D, P) ==
  /\ saveGuarded \in BOOLEAN
  /\ padsYear \in P
  /\ pdf \in D
  /\ raw_lines = <<>>
  /\ pure_lines = <<>>
  /\ pc = "open"
  /\ crash_info = CrashInfoDefault
  /\ case_info = CaseInfoDefault
  /\ vehicles = <<>>
  /\ persons = <<>>
  /\ origin = NoOrigin
  /\ result = NoneValue
  /\ runs = <<>>
  /\ files = EmptyDict
  /\ batch = <<>>
  /\ output_dir = EmptyDict
  /\ writes = {}
  /\ WebIdle

\* no line of D holds a date: the C library does not show
InitWith(D) == InitOn(D, {FALSE})

Init == InitWith(Pdfs(MainAlphabet, MaxLines))

InitCrash == InitWith(Pdfs(CrashAlphabet, MaxLines))

InitVehicles == InitWith(Pdfs(VehicleAlphabet, MaxVehicleLines))

InitPlate == InitWith(Pdfs(PlateAlphabet, MaxVehicleLines))

InitInfo == InitWith(Pdfs(InfoAlphabet, MaxLines))

InitName == InitWith(PdfsOf(NameSeqs))

InitAgency == InitWith(Pdfs(AgencyAlphabet, MaxVehicleLines))

InitMap == InitWith(Pdfs(MapAlphabet, MaxVehicleLines))

InitClose == InitWith(Pdfs(CloseAlphabet, MaxLines))

InitVin == InitWith(Pdfs(VinAlphabet, MaxVehicleLines))

InitDate == InitOn(Pdfs(DateAlphabet, MaxLines), BOOLEAN)

\* parse() returns r
Return(r) ==
  /\ result' = r
  /\ runs' = Append(runs, r)
  /\ pc' = "returned"

\* lines 23-38: read the pages in both modes; no raw line: return None
ReadPages ==
  /\ pc = "open"
  /\ raw_lines' = raw_lines \o PageLines(pdf, 1, "raw")
  /\ pure_lines' = pure_lines \o PageLines(pdf, 1, "pure")
  /\ IF raw_lines' = <<>>
       THEN Return(NoneValue)
       ELSE pc' = "crash" /\ UNCHANGED <<result, runs>>
  /\ UNCHANGED <<batchVars, webVars>>
  /\ UNCHANGED <<saveGuarded, padsYear, pdf, crash_info, case_info, vehicles, persons, origin,
                 files>>

\* line 41
ExtractCrashBasicInfo ==
  /\ pc = "crash"
  /\ crash_info' = _extract_crash_basic_info(raw_lines)
  /\ pc' = "case"
  /\ UNCHANGED <<batchVars, webVars>>
  /\ UNCHANGED <<saveGuarded, padsYear, pdf, raw_lines, pure_lines, case_info, vehicles, persons,
                 origin, result, runs, files>>

\* line 42
ExtractCaseInfo ==
  /\ pc = "case"
  /\ case_info' = _extract_case_info(raw_lines)
  /\ pc' = "vehicles"
  /\ UNCHANGED <<batchVars, webVars>>
  /\ UNCHANGED <<saveGuarded, padsYear, pdf, raw_lines, pure_lines, crash_info, vehicles, persons,
                 origin, result, runs, files>>

\* the pass taking each line it reads out of the stream
ExtractVehiclesConsuming ==
  /\ pc = "vehicles"
  /\ LET st == _extract_vehicles(pure_lines)
     IN /\ vehicles' = st.vehicles
        /\ origin' = [NoOrigin EXCEPT !.vehicle_start = st.starts]
  /\ pure_lines' = <<>>
  /\ pc' = "persons"
  /\ UNCHANGED <<batchVars, webVars>>
  /\ UNCHANGED <<saveGuarded, padsYear, pdf, raw_lines, crash_info, case_info, persons,
                 result, runs, files>>

\* line 45
ExtractVehicles ==
  /\ pc = "vehicles"
  /\ LET st == _extract_vehicles(pure_lines)
     IN /\ vehicles' = st.vehicles
        /\ origin' = [NoOrigin EXCEPT !.vehicle_start = st.starts]
  /\ pc' = "persons"
  /\ UNCHANGED <<batchVars, webVars>>
  /\ UNCHANGED <<saveGuarded, padsYear, pdf, raw_lines, pure_lines, crash_info, case_info, persons,
                 result, runs, files>>

\* line 48; an exception raised by the scan is caught at line 56 and parse()
\* returns None (line 60)
ExtractPersons ==
  /\ pc = "persons"
  /\ LET st == _extract_persons(raw_lines, saveGuarded)
     IN IF st.raised
          THEN /\ Return(NoneValue)
               /\ UNCHANGED <<persons, origin>>
          ELSE /\ persons' = st.persons
               /\ origin' = [origin EXCEPT !.person_start = st.starts]
               /\ pc' = "map"
               /\ UNCHANGED <<result, runs>>
  /\ UNCHANGED <<batchVars, webVars>>
  /\ UNCHANGED <<saveGuarded, padsYear, pdf, raw_lines, pure_lines, crash_info, case_info, vehicles,
                 files>>

\* line 51
MapPersonsToVehicles ==
  /\ pc = "map"
  /\ LET m == _map_persons_to_vehicles(vehicles, persons)
     IN /\ vehicles' = m.vehicles
        /\ origin' = [origin EXCEPT !.attached = m.attached]
  /\ pc' = "build"
  /\ UNCHANGED <<batchVars, webVars>>
  /\ UNCHANGED <<saveGuarded, padsYear, pdf, raw_lines, pure_lines, crash_info, case_info, persons,
                 result, runs, files>>

\* line 54
BuildFinalJson ==
  /\ pc = "build"
  /\ Return(_build_final_json(crash_info, case_info, vehicles, PdfPath, padsYear))
  /\ UNCHANGED <<batchVars, webVars>>
  /\ UNCHANGED <<saveGuarded, padsYear, pdf, raw_lines, pure_lines, crash_info, case_info, vehicles,
                 persons, origin, files>>

\* a caller holding the parser (testpdf.py, lines 39-40) calls parse() again
ParseAgain ==
  /\ pc = "returned"
  /\ Len(runs) < MaxParses
  /\ pc' = "open"
  /\ UNCHANGED <<batchVars, webVars>>
  /\ UNCHANGED <<saveGuarded, padsYear, pdf, raw_lines, pure_lines, crash_info, case_info, vehicles,
                 persons, origin, result, runs, files>>

\* convert_pdf_to_json, lines 1094-1103, after its parse() on a new parser
\* returned: a record is written to <stem>.json, None writes nothing
ConvertWrite ==
  /\ pc = "returned"
  /\ Len(runs) = 1
  /\ files' = IF ~IsNone(result)
                THEN Put(files, Stem(PdfPath) \o ".json", [json |-> result])
                ELSE files
  /\ pc' = "converted"
  /\ UNCHANGED <<batchVars, webVars>>
  /\ UNCHANGED <<saveGuarded, padsYear, pdf, raw_lines, pure_lines, crash_info, case_info, vehicles,
                 persons, origin, result, runs>>

Next ==
  \/ ReadPages
  \/ ExtractCrashBasicInfo
  \/ ExtractCaseInfo
  \/ ExtractVehicles
  \/ ExtractPersons
  \/ MapPersonsToVehicles
  \/ BuildFinalJson
  \/ ParseAgain
  \/ ConvertWrite

Spec == Init /\ [][Next]_vars

SpecCrash == InitCrash /\ [][Next]_vars

SpecVehicles == InitVehicles /\ [][Next]_vars

SpecPlate == InitPlate /\ [][Next]_vars

SpecInfo == InitInfo /\ [][Next]_vars

SpecName == InitName /\ [][Next]_vars

SpecAgency == InitAgency /\ [][Next]_vars

SpecMap == InitMap /\ [][Next]_vars

SpecClose == InitClose /\ [][Next]_vars

SpecVin == InitVin /\ [][Next]_vars

SpecDate == InitDate /\ [][Next]_vars

(***************************************************************************)
(* A batch: convert_pdf_to_json (lines 1072-1109) called once per document *)
(* of the downloads directory, the calls interleaved.  Each call has its   *)
(* own parser; the calls share the output directory.                       *)
(***************************************************************************)
BatchAlphabet == {VehicleStartLine, Header1Line}

\* the one-page documents of at most MaxBatchLines lines
BatchPdfs == {<<Page(s)>> : s \in LineSeqs(BatchAlphabet, MaxBatchLines)}

\* lines 41-54 of parse(): the record of the lines of one parser, None when
\* the scan of the persons raised (lines 56-60)
RecordOf(raw, pure, path, guarded, pads) ==
  LET st == _extract_persons(raw, guarded)
  IN IF st.raised THEN NoneValue
     ELSE _build_final_json(
            _extract_crash_basic_info(raw), _extract_case_info(raw),
            _map_persons_to_vehicles(_extract_vehicles(pure).vehicles,
                                     st.persons).vehicles,
            path, pads)

\* the lines of every parser of the batch as one list
RECURSIVE SharedLines(_, _, _)
SharedLines(b, d, mode) ==
  IF d > Len(b) THEN <<>>
  ELSE (IF mode = "raw" THEN b[d].raw_lines ELSE b[d].pure_lines)
         \o SharedLines(b, d + 1, mode)

\* one list of lines for all parsers
ParserLinesShared(b, d, mode) == SharedLines(b, 1, mode)

\* lines 17-18: self.raw_lines / self.pure_lines are attributes of the parser
\* of call d
ParserLines(b, d, mode) == IF mode = "raw" THEN b[d].raw_lines ELSE b[d].pure_lines

\* line 1089: the call for document d, its parser constructed (lines 15-18)
NewCall(d, doc) ==
  [pdf_path |-> DocPath(d), pdf |-> doc, raw_lines |-> <<>>, pure_lines |-> <<>>,
   pc |-> "open", data |-> NoneValue]

\* the file a call writes (line 1093)
JsonPath(call) == Stem(call.pdf_path) \o ".json"

\* the content of a file opened for writing and not written yet
EmptyFile == [empty |-> TRUE]

\* no line of BatchAlphabet starts a person section or holds a date: the
\* reading of lines 579-585 and the C library do not show
InitBatch ==
  /\ saveGuarded = FALSE
  /\ padsYear = FALSE
  /\ pdf = <<>>
  /\ raw_lines = <<>>
  /\ pure_lines = <<>>
  /\ pc = "open"
  /\ crash_info = CrashInfoDefault
  /\ case_info = CaseInfoDefault
  /\ vehicles = <<>>
  /\ persons = <<>>
  /\ origin = NoOrigin
  /\ result = NoneValue
  /\ runs = <<>>
  /\ files = EmptyDict
  /\ batch \in {[d \in 1 .. MaxDocs |-> NewCall(d, docs[d])] :
                  docs \in [1 .. MaxDocs -> BatchPdfs]}
  /\ output_dir = EmptyDict
  /\ writes = {}
  /\ WebIdle

\* lines 23-38 of parse() in call d: the pages read; no raw line: None
BatchReadPages(d) ==
  /\ batch[d].pc = "open"
  /\ LET raw == ParserLines(batch, d, "raw") \o PageLines(batch[d].pdf, 1, "raw")
         pure == ParserLines(batch, d, "pure") \o PageLines(batch[d].pdf, 1, "pure")
     IN batch' = [batch EXCEPT ![d].raw_lines = raw, ![d].pure_lines = pure,
                               ![d].pc = IF raw = <<>> THEN "parsed" ELSE "lines"]
  /\ UNCHANGED <<output_dir, writes, saveGuarded, padsYear>>
  /\ UNCHANGED <<parserVars, webVars>>

\* lines 41-54 of parse() in call d
BatchExtract(d) ==
  /\ batch[d].pc = "lines"
  /\ batch' = [batch EXCEPT
                 ![d].data = RecordOf(ParserLines(batch, d, "raw"),
                                      ParserLines(batch, d, "pure"),
                                      batch[d].pdf_path, saveGuarded, padsYear),
                 ![d].pc = "parsed"]
  /\ UNCHANGED <<output_dir, writes, saveGuarded, padsYear>>
  /\ UNCHANGED <<parserVars, webVars>>

\* lines 1092-1094: open(json_path, "w") creates or empties the file
BatchOpenFile(d) ==
  /\ batch[d].pc = "parsed"
  /\ ~IsNone(batch[d].data)
  /\ output_dir' = Put(output_dir, JsonPath(batch[d]), EmptyFile)
  /\ writes' = writes \cup {[doc |-> d, file |-> JsonPath(batch[d])]}
  /\ batch' = [batch EXCEPT ![d].pc = "opened"]
  /\ UNCHANGED <<saveGuarded, padsYear>>
  /\ UNCHANGED <<parserVars, webVars>>

\* line 1095: json.dump(data, f)
BatchDump(d) ==
  /\ batch[d].pc = "opened"
  /\ output_dir' = Put(output_dir, JsonPath(batch[d]), [json |-> batch[d].data])
  /\ writes' = writes \cup {[doc |-> d, file |-> JsonPath(batch[d])]}
  /\ batch' = [batch EXCEPT ![d].pc = "done"]
  /\ UNCHANGED <<saveGuarded, padsYear>>
  /\ UNCHANGED <<parserVars, webVars>>

\* lines 1099-1101: parse() returned None, nothing is written
BatchFail(d) ==
  /\ batch[d].pc = "parsed"
  /\ IsNone(batch[d].data)
  /\ batch' = [batch EXCEPT ![d].pc = "done"]
  /\ UNCHANGED <<output_dir, writes, saveGuarded, padsYear>>
  /\ UNCHANGED <<parserVars, webVars>>

NextBatch ==
  \/ \E d \in DOMAIN batch : BatchReadPages(d)
  \/ \E d \in DOMAIN batch : BatchExtract(d)
  \/ \E d \in DOMAIN batch : BatchOpenFile(d)
  \/ \E d \in DOMAIN batch : BatchDump(d)
  \/ \E d \in DOMAIN batch : BatchFail(d)

SpecBatch == InitBatch /\ [][NextBatch]_vars

(***************************************************************************)
(* CaptchaSolver._solve_sync, one call after the other on one solver       *)
(***************************************************************************)
\* what the steps of the scraper leave alone
restVars == <<saveGuarded, padsYear, parserVars, batchVars>>

\* lines 86-146: the captcha uploaded, the answer read
SolveUpload ==
  /\ solver.pc = "idle"
  /\ solver.calls < MaxCalls
  /\ \E r \in Responses : solver' = UploadStep(solver, r)
  /\ UNCHANGED <<login, download, restVars>>

\* lines 151-190: one poll
SolvePoll ==
  /\ solver.pc = "polling"
  /\ solver.attempt < max_attempts
  /\ \E r \in Responses : solver' = PollStep(solver, r)
  /\ UNCHANGED <<login, download, restVars>>

\* lines 192-193: the polls used up
SolveTimeout ==
  /\ solver.pc = "polling"
  /\ solver.attempt = max_attempts
  /\ solver' = SolveReturn(solver, FALSE, "timeout")
  /\ UNCHANGED <<login, download, restVars>>

InitSolver == Quiet /\ WebIdle

NextSolver == SolveUpload \/ SolvePoll \/ SolveTimeout

SpecSolver == InitSolver /\ [][NextSolver]_vars

(***************************************************************************)
(* The captcha retry loop of main()                                        *)
(***************************************************************************)
\* the turn that goes on with the loop after a call returned True
LoginAttemptNoBreak ==
  /\ login.pc = "retry"
  /\ \E outcome \in {"true", "false", "raise"} :
       /\ login' = [LoginTurn(login, outcome) EXCEPT
                      !.pc = IF login.attempt + 1 = max_retries THEN "after" ELSE "retry"]
       /\ IF outcome = "true"
            THEN \E text \in SolvedTexts :
                   solver' = [solver EXCEPT !.last_response_text = text, !.ret = TRUE]
            ELSE UNCHANGED solver
  /\ UNCHANGED <<download, restVars>>

\* lines 338-352: one turn of the retry loop
LoginAttempt ==
  /\ login.pc = "retry"
  /\ \E outcome \in {"true", "false", "raise"} :
       /\ login' = LoginTurn(login, outcome)
       /\ IF outcome = "true"
            THEN \E text \in SolvedTexts :
                   solver' = [solver EXCEPT !.last_response_text = text, !.ret = TRUE]
            ELSE UNCHANGED solver
  /\ UNCHANGED <<download, restVars>>

\* lines 354-375: the text of the solver put into #txtCaptcha, Enter pressed
LoginEnter ==
  /\ login.pc = "after"
  /\ login.captcha_solved
  /\ login' = [login EXCEPT !.pc = "done", !.has_filled = TRUE,
                            !.filled = Strip(solver.last_response_text),
                            !.submitted = TRUE]
  /\ UNCHANGED <<solver, download, restVars>>

\* lines 376-385: the captcha solved but no field #txtCaptcha found, or an
\* exception on the way: the operator is asked
LoginNoInput ==
  /\ login.pc = "after"
  /\ login.captcha_solved
  /\ login' = [login EXCEPT !.pc = "done", !.manual = TRUE]
  /\ UNCHANGED <<solver, download, restVars>>

\* lines 379-381: the captcha not solved: the operator is asked
LoginGiveUp ==
  /\ login.pc = "after"
  /\ ~login.captcha_solved
  /\ login' = [login EXCEPT !.pc = "done", !.manual = TRUE]
  /\ UNCHANGED <<solver, download, restVars>>

\* lines 257-336: the captcha of the next search, with a solver of its own
LoginNextCaptcha ==
  /\ login.pc = "done"
  /\ login.captchas < MaxCaptchas
  /\ login' = [LoginNew EXCEPT !.captchas = login.captchas + 1]
  /\ solver' = SolverNew
  /\ UNCHANGED <<download, restVars>>

InitLogin == Quiet /\ WebIdle

NextLogin ==
  \/ LoginAttempt
  \/ LoginEnter
  \/ LoginNoInput
  \/ LoginGiveUp
  \/ LoginNextCaptcha

SpecLogin == InitLogin /\ [][NextLogin]_vars

(***************************************************************************)
(* download_all_reports(), one row of the table per step                   *)
(***************************************************************************)
\* a row of the table is under way
AtRow == download.pc = "row" /\ download.i <= Len(download.rows)

\* lines 156-158: the file of the row is there: next row
DownloadSkipExisting ==
  /\ AtRow
  /\ FileExists(download.dir, FilePath(download.rows[download.i]))
  /\ download' = [download EXCEPT !.i = @ + 1]
  /\ UNCHANGED <<solver, login, restVars>>

\* lines 160-194: the POST answered with a content type without "pdf": next row
DownloadNotPdf ==
  /\ AtRow
  /\ ~FileExists(download.dir, FilePath(download.rows[download.i]))
  /\ \E ct \in ContentTypes, body \in Payloads :
       /\ ~HasPdf(ct)
       /\ download' =
            [download EXCEPT
               !.fetched = @ \cup {[row |-> download.i, content_type |-> ct, body |-> body]},
               !.i = @ + 1]
  /\ UNCHANGED <<solver, login, restVars>>

\* lines 160-199: the POST answered with a PDF, its bytes written
DownloadSave ==
  /\ AtRow
  /\ ~FileExists(download.dir, FilePath(download.rows[download.i]))
  /\ \E ct \in ContentTypes, pdf_bytes \in Payloads :
       /\ HasPdf(ct)
       /\ LET file_path == FilePath(download.rows[download.i])
          IN download' =
               [download EXCEPT
                  !.fetched = @ \cup {[row |-> download.i, content_type |-> ct,
                                       body |-> pdf_bytes]},
                  !.dir = Put(@, file_path, pdf_bytes),
                  !.written = @ \cup {[row |-> download.i, path |-> file_path,
                                       bytes |-> pdf_bytes]},
                  !.i = @ + 1]
  /\ UNCHANGED <<solver, login, restVars>>

\* lines 173-196: the POST or the read of its answer raises; the exception
\* leaves download_all_reports
DownloadRaises ==
  /\ AtRow
  /\ ~FileExists(download.dir, FilePath(download.rows[download.i]))
  /\ download' = [download EXCEPT !.pc = "done"]
  /\ UNCHANGED <<solver, login, restVars>>

\* line 148: the rows used up
DownloadEnd ==
  /\ download.pc = "row"
  /\ download.i > Len(download.rows)
  /\ download' = [download EXCEPT !.pc = "done"]
  /\ UNCHANGED <<solver, login, restVars>>

InitDownload ==
  /\ Quiet
  /\ solver = SolverNew
  /\ login = LoginNew
  /\ download \in {DownloadStart(rows, dir) : rows \in RowSeqs, dir \in Dirs}

NextDownload ==
  \/ DownloadSkipExisting
  \/ DownloadNotPdf
  \/ DownloadSave
  \/ DownloadRaises
  \/ DownloadEnd

SpecDownload == InitDownload /\ [][NextDownload]_vars

(***************************************************************************)
(* Properties                                                              *)
(***************************************************************************)
\* parse() has returned, on a parser that was used once
Returned == pc \in {"returned", "converted"} /\ Len(runs) = 1

\* parse() has returned a record, on a parser that was used once
ReturnedRecord == Returned /\ ~IsNone(result)

\* the lines of the document in reading order, blank ones included
RECURSIVE AllLines(_, _)
AllLines(pages, p) ==
  IF p > Len(pages) THEN <<>> ELSE pages[p].raw \o AllLines(pages, p + 1)

\* no page of the document has a line that is not blank
NoTextLines ==
  \A p \in 1 .. Len(pdf) : \A i \in 1 .. Len(pdf[p].raw) : pdf[p].raw[i] = BlankLine

\* C1: a document with at least one non-blank line makes parse() return a
\* record, never the failure result None.
C1_RecordForEveryNonEmptyDocument ==
  (Returned /\ ~NoTextLines) => ~IsNone(result)

\* C2: a document whose pages yield no non-blank line makes parse() return
\* None, not a record, and convert_pdf_to_json writes no file for it.
C2_EmptyDocumentFails ==
  (pc \in {"returned", "converted"} /\ NoTextLines)
    => (IsNone(result) /\ DOMAIN files = {})

\* the conversion of a document of blank lines only has ended
C2_Witness ==
  /\ pc = "converted"
  /\ NoTextLines
  /\ Len(AllLines(pdf, 1)) >= 2
  /\ IsNone(result)
  /\ DOMAIN files = {}

CrashKeys ==
  {"incident_number", "report_number", "department", "state_code",
   "state_abbreviation", "state_name", "county_code", "county", "municipality_code",
   "municipality", "crash_location", "crash_type_l1", "crash_type_l2",
   "date_of_crash", "total_killed", "total_injured", "total_vehicles",
   "case_file_s3_path", "s3_bucket_name", "s3_access_key", "s3_secret_key",
   "pdf_file_path", "case_detail", "vehicles"}

CaseDetailKeys ==
  {"local_information", "locality", "location", "route_type", "route_number",
   "route_prefix", "lane_speed_limit_1", "lane_speed_limit_2", "crash_severity"}

VehicleKeys ==
  {"vehicle_unit", "is_commercial", "make", "model", "vehicle_year", "plate_number",
   "plate_state", "plate_year", "vin", "policy", "is_driven", "is_left_at_scene",
   "is_towed", "is_impounded", "is_disabled", "is_parked", "is_pedestrian",
   "is_pedal_cyclist", "is_hit_and_run", "vehicle_used", "vehicle_type",
   "trailer_or_carrier_count", "color", "vehicle_body_type",
   "vehicle_travel_direction", "vehicle_details", "persons"}

VehicleDetailsKeys ==
  {"crash_seq_1st_event", "crash_seq_2nd_event", "crash_seq_3rd_event",
   "crash_seq_4th_event", "harmful_event", "authorized_speed",
   "estimated_original_speed", "estimated_impact_speed", "tad", "estimated_damage",
   "most_harmful_event", "insurance_company", "insurance_verified", "us_dot",
   "towed_by", "occupant_count", "initial_impact", "contributing_circumstance",
   "damage_severity", "damaged_area", "vehicle_defects", "overweight_permit"}

PersonKeys ==
  {"person_type", "first_name", "middle_name", "last_name", "same_as_driver",
   "address_block", "seating_position", "date_of_birth", "gender",
   "alcohol_or_drug_involved", "ethnicity", "occupant", "airbag_deployed",
   "airbag_status", "trapped", "ejection", "injury", "ems_name",
   "injured_taken_by_ems", "age", "injured_taken_to", "driver_info_id",
   "alcohol_test_status", "alcohol_test_type", "alcohol_test_value",
   "drug_test_status", "drug_test_type", "drug_test_value", "offense_charged",
   "local_code", "offense_description", "citation_number", "contact_number",
   "ol_class", "endorsement", "restriction", "driver_distracted_by",
   "driving_license", "dl_state", "alcohol_or_drug_suspected"}

AddressKeys == {"address_line1", "address_city", "address_state", "address_zip"}

\* C3: every record parse() returns has exactly the fixed keys: the crash
\* keys, one case_detail element with its keys, and for every vehicle the
\* vehicle keys, the vehicle_details keys and persons that each have the
\* person keys and the address_block keys.
C3_TotalCoverage ==
  (pc \in {"returned", "converted"} /\ ~IsNone(result)) =>
    /\ DOMAIN result = CrashKeys
    /\ Len(result.case_detail) = 1
    /\ DOMAIN result.case_detail[1] = CaseDetailKeys
    /\ \A j \in 1 .. Len(result.vehicles) :
         LET v == result.vehicles[j]
         IN /\ DOMAIN v = VehicleKeys
            /\ DOMAIN v.vehicle_details = VehicleDetailsKeys
            /\ \A k \in 1 .. Len(v.persons) :
                 /\ DOMAIN v.persons[k] = PersonKeys
                 /\ DOMAIN v.persons[k].address_block = AddressKeys

\* a record with a vehicle that has a person
C3_Witness ==
  /\ ReturnedRecord
  /\ \E j \in 1 .. Len(result.vehicles) : Len(result.vehicles[j].persons) >= 1

\* the values a field without a resolved value may take
Fallback == {"", "NA"}

\* C4: a field whose anchor was not found is emitted as "" or "NA".  No line
\* of MainAlphabet holds the anchor of a crash-level or case-detail field, of
\* the year, make, plate, type, trailer count or flags of a vehicle; these
\* fields are unresolved in every record of Spec.
C4_UnresolvedIsEmptyOrNA ==
  ReturnedRecord =>
    /\ result.total_vehicles \in Fallback
    /\ result.case_detail[1].locality \in Fallback
    /\ result.case_detail[1].crash_severity \in Fallback
    /\ \A j \in 1 .. Len(result.vehicles) :
         LET v == result.vehicles[j]
         IN /\ v.vehicle_year \in Fallback
            /\ v.make \in Fallback
            /\ v.plate_number \in Fallback
            /\ v.plate_state \in Fallback
            /\ v.vehicle_type \in Fallback
            /\ v.trailer_or_carrier_count \in Fallback
            /\ v.is_commercial \in Fallback
            /\ v.is_towed \in Fallback

\* C5: two parse() runs over the same document return equal records, also
\* when the second run is on the same parser.
C5_Idempotent == Len(runs) >= 2 => runs[1] = runs[2]

\* C6: the vehicle_unit values of a record are pairwise distinct.
C6_UnitsDistinct ==
  ReturnedRecord =>
    \A i, j \in 1 .. Len(result.vehicles) :
      i # j => result.vehicles[i].vehicle_unit # result.vehicles[j].vehicle_unit

\* the persons of the list were mapped to the vehicles of the record
Mapped == ReturnedRecord /\ Len(origin.attached) = Len(result.vehicles)

\* C7: a person is in the list of at most one vehicle, and only of the
\* vehicle whose unit is the unit resolved for the person; a person with no
\* resolved unit, or with a unit no vehicle has, is in no list.
C7_PersonOnlyInOwnVehicle ==
  Mapped =>
    /\ \A k \in 1 .. Len(persons) :
         Cardinality({j \in 1 .. Len(vehicles) :
                        \E n \in 1 .. Len(origin.attached[j]) :
                          origin.attached[j][n] = k}) <= 1
    /\ \A j \in 1 .. Len(vehicles) : \A n \in 1 .. Len(origin.attached[j]) :
         LET basic == persons[origin.attached[j][n]].basic
         IN /\ "vehicle_number" \in DOMAIN basic
            /\ basic["vehicle_number"] = vehicles[j].vehicle_unit

\* the end of the section of the vehicle started at line s: the next vehicle
\* start anchor, or the end of the stream
SectionEnd(lines, s) ==
  LET later == {i \in s + 1 .. Len(lines) : IsVehicleStart(lines[i])}
  IN IF later = {} THEN Len(lines) + 1 ELSE CHOOSE i \in later : \A q \in later : i <= q

\* C8: the start line of every person in a vehicle's list lies in the section
\* of that vehicle, from its start anchor to the next vehicle start or the
\* end of the stream.
C8_SectionContainment ==
  Mapped =>
    \A j \in 1 .. Len(vehicles) : \A n \in 1 .. Len(origin.attached[j]) :
      LET at == origin.person_start[origin.attached[j][n]]
      IN /\ origin.vehicle_start[j] <= at
         /\ at < SectionEnd(pure_lines, origin.vehicle_start[j])

\* C9: the vehicles of a record are in ascending order of unit number.
C9_VehiclesSorted ==
  ReturnedRecord =>
    \A i, j \in 1 .. Len(result.vehicles) :
      i < j => IntOf(result.vehicles[i].vehicle_unit)
                 <= IntOf(result.vehicles[j].vehicle_unit)

\* the NCIC branch (lines 106-116) resolved a vehicle count from some line
ExplicitCount ==
  \E l \in 1 .. Len(raw_lines) - 1 :
    /\ StartsWith(raw_lines[l], "NCIC *")
    /\ ~StartsWith(raw_lines[l + 1], "NUMBER OF UNITS")
    /\ Len(SplitSpace(raw_lines[l + 1])) >= 2
    /\ IsInt(SplitSpace(raw_lines[l + 1])[2])

\* C10: total_vehicles is the number of vehicle records when no count was
\* resolved from the NCIC line, and the resolved count otherwise.
C10_TotalVehicles ==
  ReturnedRecord =>
    IF ExplicitCount
      THEN result.total_vehicles = ToString(crash_info.no_of_vehicles)
      ELSE result.total_vehicles = ToString(Len(result.vehicles))

(***************************************************************************)
(* Crash date                                                              *)
(***************************************************************************)
\* the characters of the first token of the crash date line the scan resolved
CrashDateToken == Chars(FirstToken(crash_info.date_of_crash))

\* cs reads dd/dd/dddd
IsUsForm(cs) ==
  /\ Len(cs) = 10
  /\ cs[3] = "/" /\ cs[6] = "/"
  /\ \A k \in {1, 2, 4, 5, 7, 8, 9, 10} : IsDigit(cs[k])

\* cs reads d/d/dddd with one or two digits of month and of day
IsShortUsForm(cs) ==
  \E ml \in 1 .. 2, dl \in 1 .. 2 :
    /\ Len(cs) = ml + dl + 6
    /\ cs[ml + 1] = "/" /\ cs[ml + dl + 2] = "/"
    /\ \A k \in 1 .. Len(cs) : k \notin {ml + 1, ml + dl + 2} => IsDigit(cs[k])

\* month, day and year of cs name a day of the calendar
IsCalendarDate(month, day, year) ==
  /\ year >= 1
  /\ month \in 1 .. 12
  /\ day >= 1 /\ day <= DaysInMonth(year, month)

UsMonth(cs) == NumberOf(SubSeq(cs, 1, 2))

UsDay(cs) == NumberOf(SubSeq(cs, 4, 5))

UsYear(cs) == NumberOf(SubSeq(cs, 7, 10))

\* a date of the calendar written MM/DD/YYYY
IsUsDate(cs) == IsUsForm(cs) /\ IsCalendarDate(UsMonth(cs), UsDay(cs), UsYear(cs))

\* a token no reading as month/day/year makes a date of the calendar
Unparsable(cs) ==
  ~ \E ml \in 1 .. 2, dl \in 1 .. 2 :
      /\ IsShortUsForm(cs)
      /\ Len(cs) = ml + dl + 6
      /\ cs[ml + 1] = "/" /\ cs[ml + dl + 2] = "/"
      /\ IsCalendarDate(NumberOf(SubSeq(cs, 1, ml)),
                        NumberOf(SubSeq(cs, ml + 2, ml + dl + 1)),
                        NumberOf(SubSeq(cs, ml + dl + 3, Len(cs))))

RECURSIVE Join(_)
Join(cs) == IF cs = <<>> THEN "" ELSE Head(cs) \o Join(Tail(cs))

\* the text YYYY-MM-DD with the year, month and day of a token MM/DD/YYYY
IsoOf(cs) ==
  <<cs[7], cs[8], cs[9], cs[10], "-", cs[1], cs[2], "-", cs[4], cs[5]>>

\* C11: a resolved crash date line "MM/DD/YYYY ..." is emitted as YYYY-MM-DD
\* with the same year, month and day; a missing or unparsable crash date is
\* emitted as the empty string (and a record is still returned).
C11_DateNormalized ==
  ReturnedRecord =>
    IF crash_info.date_of_crash = "" THEN result.date_of_crash = ""
    ELSE /\ IsUsDate(CrashDateToken) => result.date_of_crash = Join(IsoOf(CrashDateToken))
         /\ Unparsable(CrashDateToken) => result.date_of_crash = ""

\* cs reads dddd-dd-dd
IsIsoForm(cs) ==
  /\ Len(cs) = 10
  /\ cs[5] = "-" /\ cs[8] = "-"
  /\ \A k \in {1, 2, 3, 4, 6, 7, 9, 10} : IsDigit(cs[k])

\* the text MM/DD/YYYY of a text YYYY-MM-DD
UsOf(iso) ==
  <<iso[6], iso[7], "/", iso[9], iso[10], "/", iso[1], iso[2], iso[3], iso[4]>>

\* the texts YYYY-MM-DD of the dates the lines of the universe hold
IsoTexts ==
  {IsoOf(Chars(FirstToken(line))) : line \in {DateLine, BadDateLine, OldDateLine}}

\* C12: for a crash date MM/DD/YYYY the emitted date_of_crash is a text
\* YYYY-MM-DD that converts back to the same MM/DD/YYYY.
C12_DateRoundTrip ==
  (ReturnedRecord /\ crash_info.date_of_crash # "" /\ IsUsDate(CrashDateToken)) =>
    \E iso \in IsoTexts :
      /\ IsIsoForm(iso)
      /\ Join(iso) = result.date_of_crash
      /\ UsOf(iso) = CrashDateToken

(***************************************************************************)
(* Vehicle sections                                                        *)
(***************************************************************************)
\* the indexes of the vehicle-start lines of a line stream
VehicleStarts(lines) == {i \in 1 .. Len(lines) : IsVehicleStart(lines[i])}

\* the indexes of the person-start lines of a line stream
PersonStarts(lines) == {i \in 1 .. Len(lines) : IsPersonStart(lines, i)}

\* C13: a stream with two vehicle-start anchors and no person-start anchor
\* yields a record with exactly two vehicles, each with an empty persons list.
C13_TwoVehiclesNoPersons ==
  (/\ ReturnedRecord
   /\ Cardinality(VehicleStarts(pure_lines)) = 2
   /\ PersonStarts(raw_lines) = {}) =>
    /\ Len(result.vehicles) = 2
    /\ \A j \in 1 .. Len(result.vehicles) : result.vehicles[j].persons = <<>>

\* line i of the stream is the LP STATE anchor read inside the open section of
\* the vehicle that became vehicles[j], and the line after it is next
PlateLineOf(j, i, next) ==
  /\ j \in 1 .. Len(origin.vehicle_start)
  /\ i > origin.vehicle_start[j]
  /\ \A k \in origin.vehicle_start[j] + 1 .. i : ~IsVehicleStart(pure_lines[k])
  /\ i + 1 <= Len(pure_lines)
  /\ pure_lines[i] = LpStateLine
  /\ pure_lines[i + 1] = next

\* C14: the LP STATE anchor line followed by "KY 2802GB 3C6UR5FL6MG630586 2021
\* RAM" inside an open vehicle section yields plate_state "KY", plate_number
\* "2802GB", vin "3C6UR5FL6MG630586", vehicle_year "2021" and make "RAM".
C14_PlateLine ==
  ReturnedRecord =>
    \A j \in 1 .. Len(result.vehicles) :
      (\E i \in 1 .. Len(pure_lines) : PlateLineOf(j, i, LpDataLine)) =>
        /\ result.vehicles[j].plate_state = "KY"
        /\ result.vehicles[j].plate_number = "2802GB"
        /\ result.vehicles[j].vin = "3C6UR5FL6MG630586"
        /\ result.vehicles[j].vehicle_year = "2021"
        /\ result.vehicles[j].make = "RAM"

(***************************************************************************)
(* Crash-level anchors                                                     *)
(***************************************************************************)
\* the indexes of the lines of the stream that hold the anchor
AnchorLines(anchor) == {l \in 1 .. Len(raw_lines) : Contains(anchor, raw_lines[l])}

\* the least member of a non-empty set of indexes
First(S) == CHOOSE l \in S : \A k \in S : l <= k

\* C15: a stream of one page that holds the line "LOCAL INFORMATION
\* P25102200000570" yields a record whose report_number is "P25102200000570".
C15_LocalInformationIsReportNumber ==
  (/\ ReturnedRecord
   /\ Len(pdf) = 1
   /\ \E l \in 1 .. Len(raw_lines) : raw_lines[l] = LocalInfoLine) =>
    result.report_number = "P25102200000570"

\* the lines that hold the report number anchor and are followed by a line the
\* report number pattern matches
ReportNumberLines ==
  {l \in 1 .. Len(raw_lines) - 1 :
     /\ ~Contains("LOCAL INFORMATION", raw_lines[l])
     /\ Contains("REPORT NUMBER *", raw_lines[l])
     /\ HasReportNumber(raw_lines[l + 1])}

\* C17: when the anchor of a crash-level field occurs on more than one line,
\* the value in the record is the one of the first occurrence in scan order
\* (stated for LOCAL INFORMATION and for the report number anchor).
C17_FirstMatchWins ==
  ReturnedRecord =>
    /\ AnchorLines("LOCAL INFORMATION") # {} =>
          result.incident_number =
            AfterLocalInformation(raw_lines[First(AnchorLines("LOCAL INFORMATION"))])
    /\ ReportNumberLines # {} =>
          result.report_number = ReportNumberOf(raw_lines[First(ReportNumberLines) + 1])

(***************************************************************************)
(* Batches                                                                 *)
(***************************************************************************)
\* the record of document d processed alone: parse() on a parser of its own
AloneRecord(d) ==
  LET raw == PageLines(batch[d].pdf, 1, "raw")
      pure == PageLines(batch[d].pdf, 1, "pure")
  IN IF raw = <<>> THEN NoneValue
     ELSE RecordOf(raw, pure, DocPath(d), saveGuarded, padsYear)

\* the file named after document d
FileOf(d) == DocStem(d) \o ".json"

\* C16: in every interleaving of the calls each document gets the record it
\* gets alone, its file ends with the content it has alone (no file when the
\* document gives no record), and a call writes only the file named after its
\* document.
C16_DocumentsIndependent ==
  /\ \A d \in DOMAIN batch :
        batch[d].pc \in {"parsed", "opened", "done"} =>
          LET alone == AloneRecord(d)
          IN /\ batch[d].data = alone
             /\ batch[d].pc = "done" =>
                  IF IsNone(alone) THEN FileOf(d) \notin DOMAIN output_dir
                  ELSE output_dir[FileOf(d)] = [json |-> alone]
  /\ \A w \in writes : w.file = FileOf(w.doc)

\* a call has written the record of its document while another call, for a
\* different document that gives a different record, has read its pages and
\* not yet extracted
C16_Witness ==
  \E d, e \in DOMAIN batch :
    /\ d # e
    /\ batch[d].pc = "done" /\ ~IsNone(batch[d].data)
    /\ batch[e].pc = "lines"
    /\ batch[d].pdf # batch[e].pdf
    /\ output_dir[FileOf(d)] = [json |-> batch[d].data]
    /\ Len(batch[d].data.vehicles) = 1

(***************************************************************************)
(* Sections and their anchors                                              *)
(***************************************************************************)
\* C18: every vehicle-start anchor and every person-start anchor scanned ends
\* up as exactly one vehicle or person section of the scan, also the last one
\* (closed by the end of the stream) and also one whose header resolved nothing.
C18_OpenSectionEmitted ==
  ReturnedRecord =>
    /\ Len(vehicles) = Cardinality(VehicleStarts(pure_lines))
    /\ Len(result.vehicles) = Cardinality(VehicleStarts(pure_lines))
    /\ Len(persons) = Cardinality(PersonStarts(raw_lines))

\* C19: after a vehicle start the scan skips a window of lines (at least the
\* header line it has read) before it can take another line as a vehicle
\* start: no vehicle of the list starts on the line after another one's start.
C19_SkipWindowAfterVehicleStart ==
  ReturnedRecord =>
    \A j, k \in 1 .. Len(origin.vehicle_start) :
      origin.vehicle_start[k] # origin.vehicle_start[j] + 1

\* C20: a person section starts only at an injury-marker line that is followed
\* at once by a line holding a numeric injury code.
C20_PersonStartNeedsInjuryCode ==
  ReturnedRecord =>
    \A k \in 1 .. Len(origin.person_start) :
      LET i == origin.person_start[k]
      IN /\ i + 1 <= Len(raw_lines)
         /\ IsInt(Strip(raw_lines[i + 1]))

\* the lines of the document in one mode, in reading order, blank ones included
RECURSIVE ModeLines(_, _, _)
ModeLines(pages, p, mode) ==
  IF p > Len(pages) THEN <<>>
  ELSE (IF mode = "raw" THEN pages[p].raw ELSE pages[p].pure)
         \o ModeLines(pages, p + 1, mode)

\* s is t without its blank entries: the k-th entry of s is the k-th entry of
\* t that is not blank, and s has no further entry
IsNonBlankRest(s, t) ==
  LET kept == {i \in 1 .. Len(t) : Strip(t[i]) # ""}
      rank(i) == Cardinality({j \in kept : j <= i})
  IN /\ Len(s) = Cardinality(kept)
     /\ \A i \in kept : s[rank(i)] = t[i]

\* the pages have been read by the first parse() of the parser
FirstLinesBuilt == (Len(runs) = 0 /\ pc # "open") \/ Returned

InPass == pc \in {"crash", "case", "vehicles", "persons", "map", "build"}

\* C22: once built, the line streams are immutable for the rest of the parse:
\* no step of _extract_crash_basic_info, _extract_case_info, _extract_vehicles,
\* _extract_persons, _map_persons_to_vehicles or _build_final_json adds,
\* removes, reorders or rewrites an entry of raw_lines or pure_lines.
C22_StreamsImmutable ==
  [][InPass => (raw_lines' = raw_lines /\ pure_lines' = pure_lines)]_vars

\* the six passes have run over streams of two lines or more and found a
\* vehicle
C22_Witness ==
  /\ ReturnedRecord
  /\ Len(raw_lines) >= 2
  /\ Len(pure_lines) >= 2
  /\ Len(vehicles) >= 1

(***************************************************************************)
(* The vehicle identification number                                       *)
(***************************************************************************)
\* the whitespace-separated tokens of a line
Tokens(line) == {SplitSpace(line)[k] : k \in 1 .. Len(SplitSpace(line))} \ {""}

\* the token is made of exactly 17 letters and digits
IsVinToken(tok) == Len(tok) = 17 /\ tok \in {"3C6UR5FL6MG630586"}

\* the lines that follow an LP STATE anchor line
PlateDataLines ==
  {pure_lines[i + 1] : i \in {k \in 1 .. Len(pure_lines) - 1 : pure_lines[k] = LpStateLine}}

\* C23: the vin of an emitted vehicle is the fallback ("" or "NA") or a
\* complete whitespace-separated token of the data line under the LP STATE
\* anchor that is exactly 17 alphanumeric characters long; any other candidate
\* is rejected and the fallback emitted.
C23_VinIsWholeToken ==
  ReturnedRecord =>
    \A j \in 1 .. Len(result.vehicles) :
      \/ result.vehicles[j].vin \in {"", "NA"}
      \/ \E line \in PlateDataLines :
           /\ result.vehicles[j].vin \in Tokens(line)
           /\ IsVinToken(result.vehicles[j].vin)

(***************************************************************************)
(* Closing of vehicle sections                                             *)
(***************************************************************************)
\* C24: no vehicle block is emitted twice: each vehicle-start anchor line
\* contributes at most one entry to the vehicles of the record, whichever
\* event closes its section (the next vehicle start, a FIRST/MOST HARMFUL
\* EVENT line, a DATE OF BIRTH line, the end of the stream).
C24_NoVehicleTwice ==
  ReturnedRecord =>
    /\ Len(origin.vehicle_start) = Len(result.vehicles)
    /\ \A j \in 1 .. Len(origin.vehicle_start) :
         /\ origin.vehicle_start[j] \in VehicleStarts(pure_lines)
         /\ \A k \in 1 .. Len(origin.vehicle_start) :
              j # k => origin.vehicle_start[j] # origin.vehicle_start[k]

\* a section closed by a harmful-events line has been emitted, and the end of
\* the stream came after it
C24_Witness ==
  /\ ReturnedRecord
  /\ Len(result.vehicles) = 1
  /\ \E i \in 1 .. Len(pure_lines) :
       /\ pure_lines[i] = HarmfulLine
       /\ origin.vehicle_start[1] < i
       /\ result.vehicles[1].vehicle_details.harmful_event = "12"

(***************************************************************************)
(* Numbering and order of persons                                          *)
(***************************************************************************)
\* _extract_persons has returned its list in the parse under way or ended
PersonsExtracted == pc \in {"map", "build"} \/ (pc \in {"returned", "converted"} /\ ~IsNone(result))

\* _map_persons_to_vehicles has returned in the parse under way or ended
PersonsMapped == pc = "build" \/ (pc \in {"returned", "converted"} /\ ~IsNone(result))

\* the sequence of numbers is strictly increasing
Increasing(s) == \A a, b \in 1 .. Len(s) : a < b => s[a] < s[b]

\* C25: the persons returned by _extract_persons carry person_index 1..n,
\* consecutive and increasing in the order of their start anchors in the
\* stream, the same index in basic, info and driver; and
\* _map_persons_to_vehicles keeps the stream order of the persons inside each
\* vehicle's persons list.
C25_PersonIndexAndOrder ==
  /\ PersonsExtracted =>
       /\ Len(origin.person_start) = Len(persons)
       /\ Increasing(origin.person_start)
       /\ \A k \in 1 .. Len(persons) :
            /\ origin.person_start[k] \in PersonStarts(raw_lines)
            /\ persons[k].basic.person_index = k
            /\ persons[k].info.person_index = k
            /\ persons[k].driver.person_index = k
  /\ PersonsMapped =>
       \A j \in 1 .. Len(origin.attached) :
         /\ Increasing(origin.attached[j])
         /\ Len(vehicles[j].persons) = Len(origin.attached[j])
         /\ \A n \in 1 .. Len(origin.attached[j]) :
              vehicles[j].persons[n] = PersonJson(persons[origin.attached[j][n]])

\* two persons have been returned and both appended to one vehicle
C25_Witness ==
  /\ ReturnedRecord
  /\ Len(persons) = 2
  /\ \E j \in 1 .. Len(origin.attached) : origin.attached[j] = <<1, 2>>

(***************************************************************************)
(* The name of a person                                                    *)
(***************************************************************************)
\* the section of person k of the list holds, before the next person start,
\* a "UNIT  #" line whose name anchor two lines on is followed by the line name
NameLineOf(k, name) ==
  \E i \in 1 .. Len(raw_lines) :
    /\ i > origin.person_start[k]
    /\ \A q \in origin.person_start[k] + 1 .. i : ~IsPersonStart(raw_lines, q)
    /\ i + 3 <= Len(raw_lines)
    /\ raw_lines[i] = UnitLine
    /\ raw_lines[i + 2] = NameAnchorLine
    /\ raw_lines[i + 3] = name

\* C26: the name line "DOE, JOHN, QUINCY" under the anchor "NAME: LAST, FIRST,
\* MIDDLE" of a person section yields last_name "DOE", first_name "JOHN" and
\* middle_name "QUINCY" in the emitted person.
C26_NameParts ==
  ReturnedRecord =>
    \A j \in 1 .. Len(origin.attached) : \A n \in 1 .. Len(origin.attached[j]) :
      NameLineOf(origin.attached[j][n], NameLine) =>
        /\ result.vehicles[j].persons[n].last_name = "DOE"
        /\ result.vehicles[j].persons[n].first_name = "JOHN"
        /\ result.vehicles[j].persons[n].middle_name = "QUINCY"

(***************************************************************************)
(* Municipality                                                            *)
(***************************************************************************)
\* the lines that follow a "REPORTING AGENCY NAME *" line and are no NCIC line
AgencyNames ==
  {raw_lines[l + 1] :
     l \in {k \in 1 .. Len(raw_lines) - 1 :
              raw_lines[k] = AgencyLine /\ raw_lines[k + 1] # NcicLine}}

\* the first tokens of the lines that follow an "NCIC *" line
NcicCodes ==
  {SplitSpace(raw_lines[l + 1])[1] :
     l \in {k \in 1 .. Len(raw_lines) - 1 :
              raw_lines[k] = NcicLine /\ Len(SplitSpace(raw_lines[k + 1])) >= 2}}

\* C27: municipality carries the agency name read from the line after
\* "REPORTING AGENCY NAME *" and municipality_code the code read from the line
\* after "NCIC *"; the name is never replaced by the code, and a value
\* resolved at crash level is not lost between extraction and assembly.
C27_MunicipalityIsName ==
  ReturnedRecord =>
    /\ result.municipality = crash_info.municipality
    /\ result.municipality_code = crash_info.municipality_code
    /\ AgencyNames # {} => result.municipality \in AgencyNames
    /\ NcicCodes # {} => result.municipality_code \in NcicCodes

(***************************************************************************)
(* The captcha solver                                                      *)
(***************************************************************************)
\* a _solve_sync call has returned
SolveReturned == solver.pc = "idle" /\ solver.calls >= 1

\* C28: _solve_sync returns True only if the service supplied a real,
\* non-empty solution text for the captcha uploaded in this call, and then
\* last_response_text is that text; it returns False when the upload fails,
\* when no captcha id comes back, when the service marks the captcha
\* incorrect and when the 60 polls are used up.
C28_TrueOnlyWithSolution ==
  SolveReturned =>
    /\ solver.ret =>
         /\ solver.answer.kind = "str"
         /\ Strip(solver.answer.s) # ""
         /\ solver.last_response_text = Strip(solver.answer.s)
         /\ solver.captcha_id = solver.calls
    /\ solver.why \in {"upload", "no id", "incorrect", "timeout"} => ~solver.ret

(***************************************************************************)
(* The captcha retry loop                                                  *)
(***************************************************************************)
\* the last call made for the captcha returned True
LastTrue ==
  Len(login.outcomes) >= 1 /\ login.outcomes[Len(login.outcomes)] = "true"

\* C29: for one captcha the retry loop calls the solver at most 3 times,
\* stops at the first True and counts a raising call as a failed one; the
\* text of the solver is entered and submitted only after a call returned
\* True; after 3 failed calls the operator is asked and no text of the solver
\* is entered or submitted.
C29_RetryLoop ==
  /\ Len(login.outcomes) <= max_retries
  /\ \A k \in 1 .. Len(login.outcomes) - 1 : login.outcomes[k] # "true"
  /\ login.pc \in {"after", "done"} =>
       /\ LastTrue \/ Len(login.outcomes) = max_retries
       /\ login.captcha_solved <=> LastTrue
  /\ (login.has_filled \/ login.submitted) =>
       /\ LastTrue
       /\ login.filled = Strip(solver.last_response_text)
  /\ (login.pc = "done" /\ ~LastTrue) =>
       /\ login.manual
       /\ ~login.has_filled
       /\ ~login.submitted

\* three calls have failed, one of them by raising, and the operator was asked
C29_Witness ==
  /\ login.pc = "done"
  /\ Len(login.outcomes) = max_retries
  /\ ~LastTrue
  /\ \E k \in 1 .. Len(login.outcomes) : login.outcomes[k] = "raise"
  /\ login.manual

(***************************************************************************)
(* The download directory                                                  *)
(***************************************************************************)
\* the content types that name a PDF
PdfTypes == {"application/pdf", "Application/PDF; charset=binary"}

\* the path of the file of row r
RowPath(r) == "downloads/" \o download.rows[r] \o ".pdf"

\* C30: download_all_reports never overwrites nor fetches again a report whose
\* file <document_number>.pdf is in the download directory; it writes a file
\* only for a row whose own answer had a PDF content type, and the bytes
\* written are the bytes fetched for that row; a row answered with another
\* content type leaves the directory as it was.
C30_DownloadsOnlyNewPdfs ==
  /\ \A p \in DOMAIN download.before :
       p \in DOMAIN download.dir /\ download.dir[p] = download.before[p]
  /\ \A f \in download.fetched :
       /\ RowPath(f.row) \notin DOMAIN download.before
       /\ \A w \in download.written : w.path = RowPath(f.row) => w.row >= f.row
       /\ f.content_type \notin PdfTypes => \A w \in download.written : w.row # f.row
  /\ \A w \in download.written :
       /\ w.path = RowPath(w.row)
       /\ \E f \in download.fetched :
            f.row = w.row /\ f.content_type \in PdfTypes /\ f.body = w.bytes
       /\ download.dir[w.path] = w.bytes
  /\ DOMAIN download.dir = DOMAIN download.before \cup {w.path : w \in download.written}

\* a table of two rows has been gone through: the file of one row was there,
\* the other row was fetched and written
C30_Witness ==
  /\ download.pc = "done"
  /\ Len(download.rows) = 2
  /\ \E r \in 1 .. 2 : RowPath(r) \in DOMAIN download.before
  /\ Cardinality(download.written) = 1

====
